---- MODULE Spec2Model ----
(***************************************************************************)
(* Model of the robustness evaluation pipeline of the steganography        *)
(* research harness: the bit codec and the LSB embed/extract engine        *)
(* (models/lsb_steganography.js), the placeholder model's dryRun           *)
(* (models/stego_model.js), the transform dispatcher                       *)
(* (experiments/transforms.js) and the dry-run runner                      *)
(* (experiments/runner.js).                                                *)
(*                                                                         *)
(* Conventions.  A JavaScript string is a sequence of character codes, a   *)
(* binary string a sequence of 0/1, a Buffer of raw pixels a sequence of   *)
(* bytes.  An encoded image file is a record with its decodability, its    *)
(* geometry and its pixel bytes; the PNG codec is lossless, so decoding a  *)
(* PNG written from a raw buffer yields that buffer.  Scores are exact     *)
(* rationals [num, den]; floating-point rounding is not modelled.          *)
(***************************************************************************)
EXTENDS Integers, Sequences, FiniteSets, TLC

VARIABLES
    \* ---- codec / embed / extract exercised on their own ----
    cover,          \* the cover image handed to embedMessage
    message,        \* the message handed to embedMessage / stringToBinary
    lsbPc,          \* which operation acted last
    embedResult,    \* result of embedMessage
    extractResult,  \* result of extractMessage
    codecBits,      \* result of stringToBinary
    codecText,      \* result of binaryToString
    capacityResult, \* result of calculateCapacity
    \* ---- the dry-run runner (runDryRun) ----
    config,             \* [message, transforms]: the experiment configuration
    dataset,            \* dataset.images: the buffers the loader returned
    pc,                 \* position of runDryRun
    i,                  \* index of the sample being processed (outer loop)
    k,                  \* chain position within the sample (inner loop)
    sample,             \* the sample record under construction
    currentStegoImage,  \* the buffer the next transform is applied to
    results,            \* the results object: samples, status, error
    metricsFile,        \* what metrics.json holds
    applied,            \* history: every call of applyTransform, in order
    exitCode,           \* the exit code of the runner process, once it has one
    saveError,          \* history: saving the partial results failed
    \* ---- main: the training gate ----
    allowTraining,      \* process.env.ALLOW_TRAINING
    configDryRun,       \* config.dryRun, as a condition
    branch,             \* history: the branch main has taken
    \* ---- the transforms exercised on their own ----
    txCarrier,      \* [message, stego]: a stego image and the message it hides
    txSpec,         \* the transform specification
    txPc,           \* which operation acted last
    txResult,       \* what the transform function or applyTransform did
    txExtract,      \* tolerant extraction from the transformed image
    \* ---- the backend: POST /experiments/:id/run on one experiment ----
    dbFile,         \* the status of the experiment stored in db.json
    dbData,         \* db.data: the object the last db.read() produced
    objects,        \* the status field of the experiment in each such object
    requests,       \* per request: position of its handler, what its read saw
    writes,         \* file writes called and not yet on disk, in order
    children        \* per request: the runner child it spawned, the close handler

lsbVars == <<cover, message, lsbPc, embedResult, extractResult, codecBits, codecText,
             capacityResult>>

mainVars == <<exitCode, saveError>>

gateVars == <<allowTraining, configDryRun, branch>>

runVars == <<config, dataset, pc, i, k, sample, currentStegoImage, results,
             metricsFile, applied, mainVars, gateVars>>

txVars == <<txCarrier, txSpec, txPc, txResult, txExtract>>

beVars == <<dbFile, dbData, objects, requests, writes, children>>

vars == <<lsbVars, runVars, txVars, beVars>>

-----------------------------------------------------------------------------
(* Bounds of the model *)

MaxMsgLen == 2        \* longest message handed to embedMessage
MaxExtraPixels == 4   \* covers have 32 .. 32 + MaxExtraPixels pixels
MaxChain == 2         \* longest configured transform chain
MaxRequests == 2      \* concurrent POST /experiments/:id/run on one experiment
LongPrintable == 32   \* printable characters of the long messages
LongControl == 4      \* control characters of the long messages

(* Program constants *)

HeaderChars == 16       \* padStart(16, '0')
HeaderBits == 128       \* first 128 bits = 16 chars
MaxMessageLength == 10000
ByteBits == 8
DatasetLimit == 2       \* loadDataset(config.dataset, { limit: 2 })
DefaultJpegQuality == 75

-----------------------------------------------------------------------------
(* Small helpers *)

Min(a, b) == IF a < b THEN a ELSE b
Max(a, b) == IF a > b THEN a ELSE b

Pow2(n) == 2 ^ n

\* A rational number, kept unnormalised; den > 0.
Rat(n, d) == [num |-> n, den |-> d]
RatEq(a, b) == a.num * b.den = b.num * a.den
RatLeq(a, b) == a.num * b.den <= b.num * a.den
RatLt(a, b) == a.num * b.den < b.num * a.den
RECURSIVE Gcd(_, _)
Gcd(a, b) == IF b = 0 THEN a ELSE Gcd(b, a % b)
RatNorm(a) == LET g == Gcd(a.num, a.den) IN IF g <= 1 THEN a ELSE Rat(a.num \div g, a.den \div g)
RatAdd(a, b) == RatNorm(Rat(a.num * b.den + b.num * a.den, a.den * b.den))
RatDivInt(a, n) == RatNorm(Rat(a.num, a.den * n))
RatOne == Rat(1, 1)
RatZero == Rat(0, 1)

\* Number.prototype.toString(2): binary digits without leading zeros.
RECURSIVE ToBinaryDigits(_)
ToBinaryDigits(n) ==
    IF n < 2 THEN <<n>> ELSE Append(ToBinaryDigits(n \div 2), n % 2)

\* Number.prototype.toString(): decimal digits as character codes.
RECURSIVE ToDecimalString(_)
ToDecimalString(n) ==
    IF n < 10 THEN <<48 + n>> ELSE Append(ToDecimalString(n \div 10), 48 + (n % 10))

\* String.prototype.padStart(n, c): never truncates.
PadStart(s, n, c) ==
    IF Len(s) >= n THEN s ELSE [j \in 1..(n - Len(s)) |-> c] \o s

\* parseInt(bin, 2) of a string of binary digits.
RECURSIVE BinaryValue(_)
BinaryValue(bin) ==
    IF Len(bin) = 0 THEN 0
    ELSE 2 * BinaryValue(SubSeq(bin, 1, Len(bin) - 1)) + bin[Len(bin)]

\* /[ -~]/ : printable ASCII.
IsPrintable(c) == c >= 32 /\ c <= 126

PrintableCount(s) == Cardinality({j \in 1..Len(s) : IsPrintable(s[j])})

-----------------------------------------------------------------------------
(* Bit codec *)

\* Mutant: the 8-bit zero padding is forgotten.
stringToBinaryNoPad(str) ==
    LET RECURSIVE Cat(_)
        Cat(j) == IF j > Len(str) THEN <<>>
                  ELSE ToBinaryDigits(str[j]) \o Cat(j + 1)
    IN Cat(1)

stringToBinary(str) ==
    LET RECURSIVE Cat(_)
        Cat(j) == IF j > Len(str) THEN <<>>
                  ELSE PadStart(ToBinaryDigits(str[j]), ByteBits, 0) \o Cat(j + 1)
    IN Cat(1)

\* binary.match(/.{1,8}/g): greedy groups of 8, the last one possibly shorter.
binaryToString(binary) ==
    LET n == (Len(binary) + ByteBits - 1) \div ByteBits
    IN [g \in 1..n |->
          BinaryValue(SubSeq(binary, ByteBits * (g - 1) + 1,
                             Min(ByteBits * g, Len(binary))))]

-----------------------------------------------------------------------------
(* parseInt(string) with no radix, as extractMessage uses it on the header. *)

IsWhiteSpace(c) == c \in {9, 10, 11, 12, 13, 32, 160}

DigitValue(c) ==
    IF c >= 48 /\ c <= 57 THEN c - 48
    ELSE IF c >= 97 /\ c <= 122 THEN c - 97 + 10
    ELSE IF c >= 65 /\ c <= 90 THEN c - 65 + 10
    ELSE 99

\* Value of the longest prefix of s made of digits of the radix; the value
\* saturates at MaxMessageLength + 1, the only thing the caller can observe
\* of a larger number.  [digits |-> number of digits read, val |-> value].
ParseDigits(s, radix) ==
    LET RECURSIVE Go(_, _, _)
        Go(j, acc, cnt) ==
            IF j > Len(s) \/ DigitValue(s[j]) >= radix
            THEN [digits |-> cnt, val |-> acc]
            ELSE Go(j + 1, Min(acc * radix + DigitValue(s[j]), MaxMessageLength + 1), cnt + 1)
    IN Go(1, 0, 0)

\* [nan |-> BOOLEAN, val |-> Int]
ParseInt(str) ==
    LET RECURSIVE SkipWs(_)
        SkipWs(j) == IF j <= Len(str) /\ IsWhiteSpace(str[j]) THEN SkipWs(j + 1) ELSE j
        start == SkipWs(1)
        s1 == SubSeq(str, start, Len(str))
        signed == Len(s1) > 0 /\ s1[1] \in {43, 45}
        sign == IF Len(s1) > 0 /\ s1[1] = 45 THEN -1 ELSE 1
        s2 == IF signed THEN SubSeq(s1, 2, Len(s1)) ELSE s1
        hex == Len(s2) >= 2 /\ s2[1] = 48 /\ s2[2] \in {120, 88}
        s3 == IF hex THEN SubSeq(s2, 3, Len(s2)) ELSE s2
        p == ParseDigits(s3, IF hex THEN 16 ELSE 10)
    IN IF p.digits = 0 THEN [nan |-> TRUE, val |-> 0]
       ELSE [nan |-> FALSE, val |-> sign * p.val]

-----------------------------------------------------------------------------
(* Images *)

\* An encoded image file.  readable: sharp can read its metadata; decodable:
\* sharp can decode its pixels.
NoImage ==
    [readable |-> FALSE, decodable |-> FALSE, width |-> 0, height |-> 0,
     channels |-> 0, data |-> <<>>]

\* sharp(buffer).ensureAlpha().raw(): an opaque alpha byte is added to every
\* pixel of an image without alpha.
RawWithAlpha(img) ==
    IF img.channels = 4 THEN img.data
    ELSE [idx \in 1..(img.width * img.height * 4) |->
            IF idx % 4 = 0 THEN 255
            ELSE img.data[((idx - 1) \div 4) * img.channels + ((idx - 1) % 4) + 1]]

\* sharp(buffer).raw(): no alpha added.
RawPlain(img) == img.data

\* sharp(raw, {raw: {width, height, channels}}).png()
PngOf(raw, w, h, ch) ==
    [readable |-> TRUE, decodable |-> TRUE, width |-> w, height |-> h,
     channels |-> ch, data |-> raw]

\* Mutant: the extractor reads bit 1 of the byte instead of bit 0.
LSBitOther(data, idx) == IF idx < Len(data) THEN (data[idx + 1] \div 2) % 2 ELSE 0

\* data[idx] & 1 with a 0-based index; a read past the end of a Buffer is
\* undefined, and undefined & 1 is 0.
LSBit(data, idx) == IF idx < Len(data) THEN data[idx + 1] % 2 ELSE 0

\* Mutant: the least significant bit is not cleared first.
SetLSBNoClear(byte, bit) == IF byte % 2 = 1 THEN byte ELSE byte + bit

\* (byte & 0xFE) | bit
SetLSB(byte, bit) == (byte - (byte % 2)) + bit


-----------------------------------------------------------------------------
(* LSB embed engine *)

NoMetadata == [messageLength |-> 0, bitsUsed |-> 0, capacity |-> 0]

\* A thrown error is a result with ok = FALSE and the error's kind.
EmbedError(kind) ==
    [ok |-> FALSE, error |-> kind, stegoImage |-> NoImage, metadata |-> NoMetadata]

\* Mutant: the capacity test is off by one (>= instead of >).
embedMessageStrictCapacity(imageBuffer, msg) ==
    IF ~imageBuffer.decodable THEN EmbedError("codec")
    ELSE
      LET data == RawWithAlpha(imageBuffer)
          messageBinary ==
              stringToBinary(PadStart(ToDecimalString(Len(msg)), HeaderChars, 48) \o msg)
      IN IF Len(messageBinary) >= Len(data) THEN EmbedError("capacity")
         ELSE [ok |-> TRUE, error |-> "none",
               stegoImage |->
                 PngOf([idx \in 1..Len(data) |->
                          IF idx <= Len(messageBinary)
                          THEN SetLSB(data[idx], messageBinary[idx]) ELSE data[idx]],
                       imageBuffer.width, imageBuffer.height, 4),
               metadata |-> [messageLength |-> Len(msg),
                             bitsUsed |-> Len(messageBinary),
                             capacity |-> Len(data)]]

embedMessage(imageBuffer, msg) ==
    IF ~imageBuffer.decodable THEN EmbedError("codec")      \* sharp rejects the input
    ELSE
      LET data == RawWithAlpha(imageBuffer)
          messageLength == PadStart(ToDecimalString(Len(msg)), HeaderChars, 48)
          messageBinary == stringToBinary(messageLength \o msg)
          maxBits == Len(data)
      IN IF Len(messageBinary) > maxBits THEN EmbedError("capacity")
         ELSE [ok |-> TRUE, error |-> "none",
               stegoImage |->
                 PngOf([idx \in 1..Len(data) |->
                          IF idx <= Len(messageBinary)
                          THEN SetLSB(data[idx], messageBinary[idx]) ELSE data[idx]],
                       imageBuffer.width, imageBuffer.height, 4),
               metadata |-> [messageLength |-> Len(msg),
                             bitsUsed |-> Len(messageBinary),
                             capacity |-> maxBits]]

\* Nothing measured, and the result of a calculateCapacity that threw.
NoCapacity == [ok |-> FALSE, maxBits |-> 0, maxChars |-> 0]

\* calculateCapacity(imageBuffer): image.raw() without ensureAlpha, so the
\* buffer has the channels of the file.
calculateCapacity(imageBuffer) ==
    IF ~imageBuffer.decodable THEN NoCapacity
    ELSE LET maxBits == Len(RawPlain(imageBuffer))
         IN [ok |-> TRUE, maxBits |-> maxBits,
             maxChars |-> (maxBits - HeaderBits) \div ByteBits]

-----------------------------------------------------------------------------
(* LSB extraction engine *)

RecoveryLengthTries == 100   \* candidate lengths 1..100
DefaultRecoveredLength == 10
HammingAccept == 3           \* 3 or fewer bit errors
CanonicalLength == 30        \* message.length / 30

\* The character code of the charIdx-th (0-based) body character, or -1 when
\* the buffer ends before its eighth bit.
BodyCharCode(data, charIdx) ==
    IF HeaderBits + charIdx * ByteBits + ByteBits <= Len(data)
    THEN BinaryValue([b \in 1..ByteBits |-> LSBit(data, HeaderBits + charIdx * ByteBits + b - 1)])
    ELSE -1

\* Mutant: the default guess, whatever the buffer holds.
attemptLengthRecoveryDefault(data) == DefaultRecoveredLength

\* Mutant: no candidate length is tried.
attemptLengthRecoveryNone(data) == 0

\* Mutant: a candidate of equal score replaces the best.
attemptLengthRecoveryLastBest(data) ==
    LET avail == IF Len(data) < HeaderBits THEN 0 ELSE (Len(data) - HeaderBits) \div ByteBits
        printable == {c \in 0..(Min(RecoveryLengthTries, avail) - 1) :
                         IsPrintable(BodyCharCode(data, c))}
        printableCount == [testLength \in 1..RecoveryLengthTries |->
                              Cardinality({c \in printable : c < testLength})]
        score(t) == Rat(printableCount[t], t)
        lastBest == {t \in 1..RecoveryLengthTries :
                        /\ \A u \in 1..(t - 1) : RatLeq(score(u), score(t))
                        /\ \A u \in (t + 1)..RecoveryLengthTries : RatLt(score(u), score(t))}
    IN IF lastBest = {} THEN DefaultRecoveredLength ELSE CHOOSE t \in lastBest : TRUE

attemptLengthRecovery(data) ==
    LET \* characters whose 8 bits all lie inside the buffer
        avail == IF Len(data) < HeaderBits THEN 0 ELSE (Len(data) - HeaderBits) \div ByteBits
        printable == {c \in 0..(Min(RecoveryLengthTries, avail) - 1) :
                         IsPrintable(BodyCharCode(data, c))}
        \* printableCount of each testLength; its score is printableCount / testLength
        printableCount == [testLength \in 1..RecoveryLengthTries |->
                              Cardinality({c \in printable : c < testLength})]
        score(t) == Rat(printableCount[t], t)
        \* The loop replaces the best only on a strictly greater score, from
        \* bestScore = -1, so it ends on the first testLength of maximal score.
        firstBest == {t \in 1..RecoveryLengthTries :
                        /\ \A u \in 1..(t - 1) : RatLt(score(u), score(t))
                        /\ \A u \in (t + 1)..RecoveryLengthTries : RatLeq(score(u), score(t))}
    IN IF firstBest = {} THEN DefaultRecoveredLength ELSE CHOOSE t \in firstBest : TRUE

HammingDistance(a, b) ==
    Cardinality({j \in 0..(ByteBits - 1) : (a \div Pow2(j)) % 2 # (b \div Pow2(j)) % 2})

\* Mutant: the search for a close printable code finds nothing.
ClosestPrintableNone(charCode) == [match |-> <<>>, distance |-> ByteBits]

\* The closest printable code, the lowest among equally close ones, and its
\* distance (the search starts from bestDistance = 8 and an empty match).
ClosestPrintable(charCode) ==
    LET minDist == CHOOSE d \in 0..ByteBits :
                      /\ \E code \in 32..126 : HammingDistance(code, charCode) = d
                      /\ \A code \in 32..126 : HammingDistance(code, charCode) >= d
        code == CHOOSE c \in 32..126 :
                      /\ HammingDistance(c, charCode) = minDist
                      /\ \A c2 \in 32..(c - 1) : HammingDistance(c2, charCode) # minDist
    IN IF minDist < ByteBits THEN [match |-> <<code>>, distance |-> minDist]
       ELSE [match |-> <<>>, distance |-> ByteBits]

\* Mutant: every complete group is decoded as it is.
attemptMessageRecoveryKeepRaw(messageBinary) ==
    [g \in 1..(Len(messageBinary) \div ByteBits) |->
        BinaryValue(SubSeq(messageBinary, (g - 1) * ByteBits + 1, g * ByteBits))]

attemptMessageRecovery(messageBinary) ==
    LET RECURSIVE Go(_, _)
        Go(idx, recovered) ==
            IF idx >= Len(messageBinary) THEN recovered
            ELSE IF idx + ByteBits > Len(messageBinary) THEN Go(idx + ByteBits, recovered)
            ELSE LET charCode == BinaryValue(SubSeq(messageBinary, idx + 1, idx + ByteBits))
                     best == ClosestPrintable(charCode)
                 IN IF IsPrintable(charCode) THEN Go(idx + ByteBits, Append(recovered, charCode))
                    ELSE IF best.distance <= HammingAccept
                         THEN Go(idx + ByteBits, recovered \o best.match)
                    ELSE IF Len(recovered) = 0
                         THEN Go(idx + ByteBits, recovered \o best.match)
                    ELSE Go(idx + ByteBits, recovered)
    IN Go(0, <<>>)

\* The recovery score of tolerant mode, from the final message.
RecoveryAssessment(msg) ==
    LET printableCount == PrintableCount(msg)
        len == Len(msg)
    IN IF len = 0 THEN RatZero                                \* printableScore 0, times 0.3
       ELSE IF 10 * printableCount >= 9 * len                 \* printableScore >= 0.9
            THEN Rat(len, Max(len, CanonicalLength))
       ELSE IF 2 * printableCount >= len                      \* printableScore >= 0.5
            THEN Rat(45 * printableCount + len * len, 75 * len)  \* 0.6 p/len + 0.4 len/30
       ELSE Rat(3 * printableCount, 10 * len)                 \* 0.3 p/len

ExtractError(kind) ==
    [ok |-> FALSE, error |-> kind, message |-> <<>>, recoveryScore |-> RatZero,
     bitsRecovered |-> 0, wasCorrupted |-> FALSE, headerValid |-> FALSE]

extractMessage(stegoImageBuffer, tolerance) ==
    IF ~stegoImageBuffer.decodable THEN ExtractError("codec")
    ELSE
      LET data == RawWithAlpha(stegoImageBuffer)
          lengthBinary == [idx \in 1..HeaderBits |-> LSBit(data, idx - 1)]
          parsed == ParseInt(binaryToString(lengthBinary))
          headerValid == ~parsed.nan /\ parsed.val > 0 /\ parsed.val <= MaxMessageLength
      IN IF ~headerValid /\ ~tolerance THEN ExtractError("invalid-length")
         ELSE
           LET messageLength == IF headerValid THEN parsed.val ELSE attemptLengthRecovery(data)
               messageBitsNeeded == messageLength * ByteBits
               messageBinary == [idx \in 1..messageBitsNeeded |-> LSBit(data, HeaderBits + idx - 1)]
               decoded == binaryToString(messageBinary)
               \* binaryToString does not throw: the catch branch is never taken
               looksCorrupted ==
                   /\ tolerance
                   /\ Len(decoded) > 0
                   /\ 10 * PrintableCount(decoded) < 7 * Len(decoded)    \* ratio < 0.7
               recovered == attemptMessageRecovery(messageBinary)
               msg == IF looksCorrupted /\ Len(recovered) > 0 THEN recovered ELSE decoded
           IN [ok |-> TRUE, error |-> "none", message |-> msg,
               recoveryScore |-> IF tolerance THEN RecoveryAssessment(msg) ELSE RatOne,
               bitsRecovered |-> messageBitsNeeded,
               wasCorrupted |-> looksCorrupted,
               headerValid |-> headerValid]

-----------------------------------------------------------------------------
(* Transform dispatcher *)

\* sharp(buffer).jpeg({quality}): the alpha channel is dropped and the colour
\* bytes come back as the lossy codec leaves them.  Which bytes a lossy
\* re-encode changes is the codec's business: the model lets it keep them
\* or round each of them to an even value.
JpegPixels(img) ==
    LET px == img.width * img.height
        rgb == [j \in 1..(px * 3) |->
                   img.data[((j - 1) \div 3) * img.channels + ((j - 1) % 3) + 1]]
    IN {rgb, [j \in 1..(px * 3) |-> rgb[j] - (rgb[j] % 2)]}

Threw(kind) == [threw |-> TRUE, error |-> kind, image |-> NoImage]
Returned(img) == [threw |-> FALSE, error |-> "none", image |-> img]

\* Fractional parameters (sigma, ratio, rate) are counted in thousandths.
Thousandths == 1000

\* A property that is not there (undefined).
Absent == -1000000

\* a || b || c: the first operand that is neither absent nor zero, else the last.
Falsy(v) == v = Absent \/ v = 0
Or2(a, b) == IF Falsy(a) THEN b ELSE a
Or3(a, b, c) == Or2(a, Or2(b, c))

DefaultNoiseSigma == 50          \* sigma = 0.05
DefaultCorruptionRate == 300     \* corruptionRate = 0.3
DefaultBlurSigma == 3000         \* sigma = 3.0
DefaultCropRatio == 800          \* ratio = 0.8
MaxJpegQuality == 100
MaxNoiseSigma == 1000            \* 1
MinBlurSigma == 300              \* 0.3
MaxBlurSigma == 1000000          \* 1000
MaxCropRatio == 1000             \* 1

\* What a transform that recomputes the colour bytes (noise, blur) can leave
\* of them: the model lets it keep them or round each of them to an even
\* value; the alpha bytes stay.
LossyColour(img) ==
    {img.data,
     [j \in 1..Len(img.data) |->
         IF img.channels = 4 /\ j % 4 = 0 THEN img.data[j]
         ELSE img.data[j] - (img.data[j] % 2)]}

SameGeometry(img, raw) ==
    [readable |-> TRUE, decodable |-> TRUE, width |-> img.width, height |-> img.height,
     channels |-> img.channels, data |-> raw]

\* applyJpeg(buffer, quality)
applyJpeg(buffer, quality) ==
    IF quality < 1 \/ quality > MaxJpegQuality
    THEN {Threw("JPEG quality must be between 1 and 100")}
    ELSE IF ~buffer.decodable THEN {Threw("codec")}
    ELSE {Returned([readable |-> TRUE, decodable |-> TRUE, width |-> buffer.width,
                    height |-> buffer.height, channels |-> 3, data |-> raw]) :
             raw \in JpegPixels(buffer)}

\* applyGaussianNoise(buffer, sigma): noise of amplitude sigma * 255 on the
\* colour bytes, none at all for sigma = 0.
applyGaussianNoise(buffer, sigma) ==
    IF sigma < 0 \/ sigma > MaxNoiseSigma THEN {Threw("Sigma must be between 0 and 1")}
    ELSE IF ~buffer.decodable THEN {Threw("codec")}
    ELSE IF sigma = 0 THEN {Returned(SameGeometry(buffer, buffer.data))}
    ELSE {Returned(SameGeometry(buffer, raw)) : raw \in LossyColour(buffer)}

\* applyBlur(buffer, sigma)
applyBlur(buffer, sigma) ==
    IF sigma < MinBlurSigma \/ sigma > MaxBlurSigma
    THEN {Threw("Sigma must be between 0.3 and 1000")}
    ELSE IF ~buffer.decodable THEN {Threw("codec")}
    ELSE {Returned(SameGeometry(buffer, raw)) : raw \in LossyColour(buffer)}

\* applyCrop(buffer, ratio): the centred region of floor(width * ratio) by
\* floor(height * ratio) pixels; sharp rejects an empty region.
applyCrop(buffer, ratio) ==
    IF ratio <= 0 \/ ratio > MaxCropRatio THEN {Threw("Crop ratio must be between 0 and 1")}
    ELSE IF ~buffer.readable THEN {Threw("codec")}
    ELSE LET newWidth == (buffer.width * ratio) \div Thousandths
             newHeight == (buffer.height * ratio) \div Thousandths
             left == (buffer.width - newWidth) \div 2
             top == (buffer.height - newHeight) \div 2
         IN IF newWidth < 1 \/ newHeight < 1 \/ ~buffer.decodable THEN {Threw("codec")}
            ELSE {Returned(
                    [readable |-> TRUE, decodable |-> TRUE, width |-> newWidth,
                     height |-> newHeight, channels |-> buffer.channels,
                     data |-> [j \in 1..(newWidth * newHeight * buffer.channels) |->
                                 LET row == (j - 1) \div (newWidth * buffer.channels)
                                     col == (j - 1) % (newWidth * buffer.channels)
                                 IN buffer.data[(top + row) * buffer.width * buffer.channels
                                                + left * buffer.channels + col + 1]]])}

\* Math.ceil(data.length * corruptionRate)
BytesToCorrupt(len, corruptionRate) == (len * corruptionRate + Thousandths - 1) \div Thousandths

\* The (byte, bit) places the model lets a random flip land on: bit 0 of the
\* first header byte, bit 0 of the byte carrying the last bit of the first
\* body character, and bit 7 of the byte after it.
CorruptionProbes(len) ==
    {f \in {[byte |-> 1, bit |-> 0], [byte |-> HeaderBits + ByteBits, bit |-> 0],
            [byte |-> HeaderBits + ByteBits + 1, bit |-> 7]} : f.byte <= len}

\* byte ^ (1 << bit)
FlipBit(byte, bit) ==
    IF (byte \div Pow2(bit)) % 2 = 1 THEN byte - Pow2(bit) ELSE byte + Pow2(bit)

\* data[randomByte] ^= (1 << randomBit), for every flip of the set
FlipBits(data, flips) ==
    [j \in 1..Len(data) |->
        LET RECURSIVE Go(_, _)
            Go(byte, bit) ==
                IF bit >= ByteBits THEN byte
                ELSE Go(IF [byte |-> j, bit |-> bit] \in flips THEN FlipBit(byte, bit)
                        ELSE byte, bit + 1)
        IN Go(data[j], 0)]

\* applyBitCorruption(buffer, corruptionRate): n flips at random places, which
\* may coincide and cancel: the net effect flips a set of places that has at
\* most n elements and the parity of n.  Of these sets the model takes those
\* made of the places above.  The rate is not validated.
applyBitCorruption(buffer, corruptionRate) ==
    IF ~buffer.decodable THEN {Threw("codec")}
    ELSE LET data == RawWithAlpha(buffer)
             n == BytesToCorrupt(Len(data), corruptionRate)
         IN {Returned(PngOf(FlipBits(data, flips), buffer.width, buffer.height, 4)) :
                flips \in {fs \in SUBSET CorruptionProbes(Len(data)) :
                              /\ Cardinality(fs) <= n
                              /\ Cardinality(fs) % 2 = n % 2}}

NoParams == [quality |-> Absent, sigma |-> Absent, radius |-> Absent, ratio |-> Absent,
             rate |-> Absent]

\* A transform specification { name, quality, sigma, rate, params: {...} }.
TransformSpec(name) ==
    [name |-> name, quality |-> Absent, sigma |-> Absent, rate |-> Absent,
     params |-> NoParams]

\* applyTransform(image, transform): the set of its possible results.  The
\* resize and rotation steps are not modelled, and no specification of the
\* model names them.
applyTransform(image, transform) ==
    LET params == transform.params
        applied_ ==
            CASE transform.name \in {"jpeg", "jpeg-compression"} ->
                    applyJpeg(image, Or3(transform.quality, params.quality,
                                         DefaultJpegQuality))
              [] transform.name \in {"noise", "gaussian_noise", "gaussian-noise"} ->
                    applyGaussianNoise(image, Or3(transform.sigma, params.sigma,
                                                  DefaultNoiseSigma))
              [] transform.name = "crop" ->
                    applyCrop(image, Or2(params.ratio, DefaultCropRatio))
              [] transform.name = "blur" ->
                    applyBlur(image, Or3(params.sigma, params.radius, DefaultBlurSigma))
              [] transform.name \in {"bit-corruption", "bit_corruption", "bitcorruption"} ->
                    applyBitCorruption(image, Or3(transform.rate, params.rate,
                                                  DefaultCorruptionRate))
              [] OTHER -> {Returned(image)}      \* unknown type: returning original
    IN {IF ~r.threw /\ ~r.image.readable
        THEN Threw("codec")                      \* sharp(transformedBuffer).metadata()
        ELSE r : r \in applied_}

-----------------------------------------------------------------------------
(* StegoModel.dryRun *)

\* A missing message (null): no character code is negative.
NullMessage == << -1 >>
\* '(no message recovered)' and '(extraction error)'
NoMessageRecovered == << -2 >>
ExtractionErrorText == << -3 >>

\* `Demo: Stego test at ${new Date().toISOString()}`, at some instant.
DemoMessage ==
    <<68, 101, 109, 111, 58, 32, 83, 116, 101, 103, 111, 32, 116, 101, 115, 116, 32,
      97, 116, 32,
      50, 48, 50, 53, 45, 48, 49, 45, 48, 49, 84, 48, 48, 58, 48, 48, 58, 48, 48, 46,
      48, 48, 48, 90>>

\* calculateCapacity throws when sharp cannot decode the buffer.
CapacityThrows(buffer) == ~buffer.decodable

\* The catch block's result: no stegoImage, no originalMessage.
DryRunFailure(kind) ==
    [success |-> FALSE, hasStego |-> FALSE, stegoImage |-> NoImage,
     hasOriginalMessage |-> FALSE, originalMessage |-> NullMessage,
     extractedMessage |-> NullMessage, messageVerified |-> FALSE, error |-> kind]

\* Extract message to verify, and the result returned.
DryRunVerified(demoMessage, stegoImage, extracted) ==
    IF ~extracted.ok THEN DryRunFailure(extracted.error)
    ELSE [success |-> TRUE, hasStego |-> TRUE, stegoImage |-> stegoImage,
          hasOriginalMessage |-> TRUE, originalMessage |-> demoMessage,
          extractedMessage |-> extracted.message,
          messageVerified |-> (extracted.message = demoMessage),
          error |-> "none"]

\* Calculate capacity, embed, then verify.
DryRunEmbedded(imageBuffer, demoMessage, embedded) ==
    IF CapacityThrows(imageBuffer) THEN DryRunFailure("codec")
    ELSE IF ~embedded.ok THEN DryRunFailure(embedded.error)
    ELSE DryRunVerified(demoMessage, embedded.stegoImage,
                        extractMessage(embedded.stegoImage, FALSE))

\* customMessage || `Demo: ...`
DemoMessageFor(customMessage) ==
    IF customMessage = NullMessage \/ customMessage = <<>> THEN DemoMessage
    ELSE customMessage

dryRun(imageBuffer, customMessage) ==
    DryRunEmbedded(imageBuffer, DemoMessageFor(customMessage),
                   embedMessage(imageBuffer, DemoMessageFor(customMessage)))

-----------------------------------------------------------------------------
(* runDryRun *)

NoScore == Rat(-1, 1)      \* robustnessScore not computed yet

NewSample(idx) ==
    [id |-> idx, transforms |-> <<>>, hiddenMessage |-> NullMessage,
     extractedMessage |-> NullMessage, messageVerified |-> FALSE,
     robustnessScore |-> NoScore, finalMessageVerified |-> FALSE]

\* Store original stego info: only when stegoResult.originalMessage is set.
SampleAfterEmbed(idx, stegoResult) ==
    IF stegoResult.hasOriginalMessage
    THEN [NewSample(idx) EXCEPT !.hiddenMessage = stegoResult.originalMessage,
                                !.extractedMessage = stegoResult.extractedMessage,
                                !.messageVerified = stegoResult.messageVerified]
    ELSE NewSample(idx)

\* stegoResult.stegoImage ? { ...image, buffer: stegoResult.stegoImage } : image
InitialChainImage(image, stegoResult) ==
    IF stegoResult.hasStego THEN stegoResult.stegoImage ELSE image

\* Mutant: any recovered text counts as a partial recovery.
StepResultAnyTextPartial(transform, extraction, hiddenMessage) ==
    [name |-> transform.name, params |-> transform, appliedToStego |-> TRUE,
     extractionSuccess |-> extraction.message = hiddenMessage,
     partialRecovery |-> Len(extraction.message) > 0,
     recoveryScore |-> extraction.recoveryScore,
     extractedMessage |-> IF Len(extraction.message) > 0 THEN extraction.message
                          ELSE NoMessageRecovered,
     messageIntact |-> extraction.message = hiddenMessage,
     originalMessage |-> hiddenMessage, hasError |-> FALSE, error |-> "none",
     hasMetrics |-> FALSE]

\* The step result pushed when extraction returned.
StepResult(transform, extraction, hiddenMessage) ==
    LET survived == extraction.message = hiddenMessage
        partialRecovery == Len(extraction.message) > 0 /\ extraction.message # hiddenMessage
    IN [name |-> transform.name, params |-> transform, appliedToStego |-> TRUE,
        extractionSuccess |-> survived, partialRecovery |-> partialRecovery,
        recoveryScore |-> extraction.recoveryScore,
        extractedMessage |-> IF Len(extraction.message) > 0 THEN extraction.message
                             ELSE NoMessageRecovered,
        messageIntact |-> survived, originalMessage |-> hiddenMessage,
        hasError |-> FALSE, error |-> "none", hasMetrics |-> FALSE]

\* The step result pushed by the catch block around extraction.
StepError(transform, extraction, hiddenMessage) ==
    [name |-> transform.name, params |-> transform, appliedToStego |-> TRUE,
     extractionSuccess |-> FALSE, partialRecovery |-> FALSE,
     recoveryScore |-> RatZero, extractedMessage |-> ExtractionErrorText,
     messageIntact |-> FALSE, originalMessage |-> hiddenMessage,
     hasError |-> TRUE, error |-> extraction.error, hasMetrics |-> FALSE]

\* Mutant: the catch block logs the extraction error and records nothing.
RecordStepDropError(steps, transform, extraction, hiddenMessage) ==
    IF extraction.ok THEN Append(steps, StepResult(transform, extraction, hiddenMessage))
    ELSE steps

\* Mutant: the catch block keeps the score of a previous extraction.
RecordStepStaleScore(steps, transform, extraction, hiddenMessage) ==
    IF extraction.ok THEN Append(steps, StepResult(transform, extraction, hiddenMessage))
    ELSE Append(steps, [StepError(transform, extraction, hiddenMessage)
                           EXCEPT !.recoveryScore = RatOne])

\* sample.transforms after the try/catch around extraction.
RecordStep(steps, transform, extraction, hiddenMessage) ==
    IF extraction.ok THEN Append(steps, StepResult(transform, extraction, hiddenMessage))
    ELSE Append(steps, StepError(transform, extraction, hiddenMessage))

\* Mutant: only perfect steps count.
RECURSIVE TotalRecoveryScorePerfectOnly(_)
TotalRecoveryScorePerfectOnly(steps) ==
    IF Len(steps) = 0 THEN RatZero
    ELSE LET rest == TotalRecoveryScorePerfectOnly(SubSeq(steps, 1, Len(steps) - 1))
         IN IF steps[Len(steps)].extractionSuccess THEN RatAdd(rest, RatOne) ELSE rest

\* Weight: Perfect = 1.0, Partial = recoveryScore, Failed = 0
RECURSIVE TotalRecoveryScore(_)
TotalRecoveryScore(steps) ==
    IF Len(steps) = 0 THEN RatZero
    ELSE LET t == steps[Len(steps)]
             rest == TotalRecoveryScore(SubSeq(steps, 1, Len(steps) - 1))
         IN IF t.extractionSuccess THEN RatAdd(rest, RatOne)
            ELSE IF t.partialRecovery /\ RatLt(RatZero, t.recoveryScore)
                 THEN RatAdd(rest, t.recoveryScore)
            ELSE rest

(* computeMetrics *)

\* metrics: {} before the aggregation
NoMetrics == [count |-> 0, byTransform |-> {}, hasScore |-> FALSE, robustnessScore |-> RatZero]

\* A step result of the runner has no metrics field.
NoStepMetrics == [psnr |-> RatZero, ssim |-> RatZero]

\* The names the steps of the samples carry.
TransformTypes(samples) ==
    UNION {{samples[n].transforms[m].name : m \in 1..Len(samples[n].transforms)} :
              n \in 1..Len(samples)}

\* sample.transforms.find(t => t.name === transformType): the first step of
\* that name, as a sequence of at most one step.
FindStep(steps, transformType) ==
    LET at == {m \in 1..Len(steps) :
                  /\ steps[m].name = transformType
                  /\ \A m2 \in 1..(m - 1) : steps[m2].name # transformType}
    IN IF at = {} THEN <<>> ELSE <<steps[CHOOSE m \in at : TRUE]>>

\* transformMetrics: the metrics of the steps found, sample by sample.
RECURSIVE TransformMetrics(_, _)
TransformMetrics(samples, transformType) ==
    IF samples = <<>> THEN <<>>
    ELSE LET found == FindStep(Head(samples).transforms, transformType)
         IN (IF found # <<>> /\ found[1].hasMetrics THEN <<NoStepMetrics>> ELSE <<>>)
            \o TransformMetrics(Tail(samples), transformType)

RECURSIVE RatSum(_)
RatSum(values) ==
    IF values = <<>> THEN RatZero ELSE RatAdd(Head(values), RatSum(Tail(values)))

\* computeStats(values).mean, without the rounding to four decimals
RatMean(values) ==
    IF values = <<>> THEN RatZero ELSE RatDivInt(RatSum(values), Len(values))

\* byTransform: an entry only for a type that has metrics.
ByTransform(samples) ==
    {[type |-> t, count |-> Len(TransformMetrics(samples, t)),
      psnrMean |-> RatMean([n \in 1..Len(TransformMetrics(samples, t)) |->
                               TransformMetrics(samples, t)[n].psnr]),
      ssimMean |-> RatMean([n \in 1..Len(TransformMetrics(samples, t)) |->
                               TransformMetrics(samples, t)[n].ssim])] :
        t \in {u \in TransformTypes(samples) : TransformMetrics(samples, u) # <<>>}}

\* (psnrScore + ssimScore) / 2 of an entry, psnrScore = min(100, psnr.mean / 50 * 100)
EntryScore(entry) ==
    LET psnrScore == IF RatLt(Rat(50, 1), entry.psnrMean) THEN Rat(100, 1)
                     ELSE Rat(2 * entry.psnrMean.num, entry.psnrMean.den)
        ssimScore == Rat(100 * entry.ssimMean.num, entry.ssimMean.den)
    IN RatDivInt(RatAdd(psnrScore, ssimScore), 2)

RECURSIVE TotalEntryScore(_)
TotalEntryScore(entries) ==
    IF entries = {} THEN RatZero
    ELSE LET e == CHOOSE x \in entries : TRUE
         IN RatAdd(EntryScore(e), TotalEntryScore(entries \ {e}))

\* computeRobustnessScore: 0 without per-transform entries, otherwise the
\* mean of the entries' scores (the rounding to two decimals is left out).
computeRobustnessScore(byTransform) ==
    IF byTransform = {} THEN RatZero
    ELSE RatDivInt(TotalEntryScore(byTransform), Cardinality(byTransform))

computeMetrics(samples) ==
    IF Len(samples) = 0 THEN NoMetrics         \* { count: 0, message }
    ELSE [count |-> Len(samples), byTransform |-> ByTransform(samples),
          hasScore |-> TRUE,
          robustnessScore |-> computeRobustnessScore(ByTransform(samples))]

NoResults ==
    [samples |-> <<>>, status |-> "running", error |-> "none", metrics |-> NoMetrics]

(* The catch block of runDryRun and main *)

NoExit == -1

\* metrics.json: not written, or the results object as it was when written.
NoFile == [written |-> FALSE, content |-> NoResults]
FileOf(res) == [written |-> TRUE, content |-> res]

\* Mutant: the results are saved as they were before the catch block.
FailedResultsUnmarked(res, errorMessage) == res

\* results.status = 'failed'; results.error = error.message
FailedResults(res, errorMessage) == [res EXCEPT !.status = "failed", !.error = errorMessage]

\* Save partial results: the write may fail, which is logged and nothing more.
\* The set of possible [file, saveError] outcomes.
SavePartialResults(file, res) ==
    {[file |-> FileOf(res), saveError |-> FALSE], [file |-> file, saveError |-> TRUE]}

(* Inputs of the runner *)

TransformSpecs ==
    {[TransformSpec("jpeg") EXCEPT !.quality = 80],       \* a valid lossy step
     [TransformSpec("jpeg") EXCEPT !.quality = 150],      \* an out-of-range parameter
     TransformSpec("identity")}                 \* a type the dispatcher does not know

Chains == UNION {[1..n -> TransformSpecs] : n \in 0..MaxChain}

\* Chains for the long message: one bit-corruption step of rate 0.002, alone
\* and followed by a step of an unknown type.
LongChains ==
    {<<[TransformSpec("bit-corruption") EXCEPT !.rate = 2]>>,
     <<[TransformSpec("bit-corruption") EXCEPT !.rate = 2], TransformSpec("identity")>>}

-----------------------------------------------------------------------------
(* Inputs of the codec and of the embed/extract engine *)

\* NUL and 'A' (ASCII), 0xC8 (Latin-1) and 0x12C (beyond one byte).
MessageChars == {0, 65, 200, 300}

Strings(chars, maxLen) == UNION {[1..n -> chars] : n \in 0..maxLen}

Messages == Strings(MessageChars, MaxMsgLen)

IsAscii(str) == \A j \in 1..Len(str) : str[j] >= 0 /\ str[j] <= 127
IsSingleByte(str) == \A j \in 1..Len(str) : str[j] >= 0 /\ str[j] <= 255

\* Pixel bytes of the covers: a ramp whose low bits vary, and solid white.
CoverPatterns == {"ramp", "white"}
CoverByte(pattern, idx) == IF pattern = "ramp" THEN (7 * idx + 3) % 256 ELSE 255

CoverImage(w, ch, pattern) ==
    [readable |-> TRUE, decodable |-> TRUE, width |-> w, height |-> 1,
     channels |-> ch, data |-> [j \in 1..(w * ch) |-> CoverByte(pattern, j)]]

MinPixels == HeaderBits \div 4     \* the smallest RGBA carrier holding the header

\* A buffer sharp cannot decode.
CorruptFile == NoImage

Covers ==
    {CoverImage(w, ch, p) : w \in MinPixels..(MinPixels + MaxExtraPixels),
                            ch \in {3, 4}, p \in CoverPatterns}
    \cup {CorruptFile}

\* Longer messages: LongPrintable times 'A', then LongControl times SOH, and
\* the parts of that on their own.
LongMessage(p, q) == [j \in 1..(p + q) |-> IF j <= p THEN 65 ELSE 1]

LongMessages ==
    {LongMessage(p, q) : p \in {0, LongPrintable}, q \in {0, LongControl}} \ {<<>>}

\* The RGBA cover that holds the longest of them exactly.
LongCover ==
    CoverImage((HeaderBits + ByteBits * (LongPrintable + LongControl)) \div 4, 4, "ramp")

\* Images that embedMessage did not write: their least significant bits spell
\* the 16 characters of hdr and then body.
ForeignImage(hdr, body) ==
    LET text == hdr \o body          \* single-byte characters, 8 bits each
        bits == [j \in 1..(ByteBits * Len(text)) |->
                    (text[((j - 1) \div ByteBits) + 1]
                        \div Pow2(ByteBits - 1 - ((j - 1) % ByteBits))) % 2]
        w == (Len(bits) + 3) \div 4
    IN PngOf([j \in 1..(4 * w) |-> IF j <= Len(bits) THEN 254 + bits[j] ELSE 255],
             w, 1, 4)

\* "0000000000000001"; "1" and 15 NUL; "0x00000000000001"; 15 spaces and "1";
\* "0000000000000000"; "0000000000010001"; 16 times "z".
ForeignHeaders ==
    {[j \in 1..HeaderChars |-> IF j = HeaderChars THEN 49 ELSE 48],
     [j \in 1..HeaderChars |-> IF j = 1 THEN 49 ELSE 0],
     [j \in 1..HeaderChars |-> IF j = 2 THEN 120 ELSE IF j = HeaderChars THEN 49 ELSE 48],
     [j \in 1..HeaderChars |-> IF j = HeaderChars THEN 49 ELSE 32],
     [j \in 1..HeaderChars |-> 48],
     [j \in 1..HeaderChars |-> IF j \in {HeaderChars, HeaderChars - 4} THEN 49 ELSE 48],
     [j \in 1..HeaderChars |-> 122]}

ForeignImages == {ForeignImage(hdr, <<65>>) : hdr \in ForeignHeaders}

\* A file whose header sharp reads and whose pixel data it cannot decode.
TruncatedFile ==
    [readable |-> TRUE, decodable |-> FALSE, width |-> MinPixels + 2, height |-> 1,
     channels |-> 3, data |-> <<>>]

\* No transform is being exercised on its own.
TxIdle ==
    /\ txCarrier = [message |-> <<>>, stego |-> NoImage]
    /\ txSpec = TransformSpec("none")
    /\ txPc = "idle"
    /\ txResult = Threw("none")
    /\ txExtract = ExtractError("none")

\* The requests of the backend, and the objects db.read() produces: object 0
\* at start-up, object r for the read of request r, object MaxRequests + r
\* for the read of the close handler of the child of request r.
Requests == 1..MaxRequests
ObjectIds == 0..(2 * MaxRequests)

\* The backend has started, the experiment is stored with status 'created'
\* and no request has arrived.
BackendIdle ==
    /\ dbFile = "created"
    /\ dbData = 0
    /\ objects = [o \in ObjectIds |-> "created"]
    /\ requests = [r \in Requests |-> [pc |-> "new", seen |-> "created"]]
    /\ writes = <<>>
    /\ children = [r \in Requests |-> [state |-> "none", code |-> NoExit, seen |-> "created"]]

\* process.env.ALLOW_TRAINING is not set.
NoEnv == "undefined"

\* The runner has not started.
RunnerIdle ==
    /\ config = [message |-> NullMessage, transforms |-> <<>>]
    /\ dataset = <<>>
    /\ pc = "idle"
    /\ i = 0
    /\ k = 0
    /\ sample = NewSample(0)
    /\ currentStegoImage = NoImage
    /\ results = NoResults
    /\ metricsFile = NoFile
    /\ applied = <<>>
    /\ exitCode = NoExit
    /\ saveError = FALSE
    /\ allowTraining = NoEnv
    /\ configDryRun = TRUE
    /\ branch = "none"

NoEmbed == EmbedError("none")
NoExtract == ExtractError("none")

InitLSB ==
    /\ \/ cover \in Covers /\ message \in Messages
       \/ cover = LongCover /\ message \in LongMessages
       \/ cover \in ForeignImages /\ message = <<>>
    /\ lsbPc = "input"
    /\ embedResult = NoEmbed
    /\ extractResult = NoExtract
    /\ codecBits = <<>>
    /\ codecText = <<>>
    /\ capacityResult = NoCapacity
    /\ RunnerIdle
    /\ TxIdle
    /\ BackendIdle

\* embedMessage(cover, message)
Embed ==
    /\ lsbPc = "input"
    /\ embedResult' = embedMessage(cover, message)
    /\ lsbPc' = IF embedResult'.ok THEN "embedded" ELSE "embedFailed"
    /\ UNCHANGED <<cover, message, extractResult, codecBits, codecText, capacityResult, runVars, txVars, beVars>>

\* extractMessage(stegoImage), strict mode
ExtractStrict ==
    /\ lsbPc = "embedded"
    /\ extractResult' = extractMessage(embedResult.stegoImage, FALSE)
    /\ lsbPc' = "extractedStrict"
    /\ UNCHANGED <<cover, message, embedResult, codecBits, codecText, capacityResult, runVars, txVars, beVars>>

\* extractMessage(stegoImage, {tolerance: true})
ExtractTolerant ==
    /\ lsbPc = "embedded"
    /\ extractResult' = extractMessage(embedResult.stegoImage, TRUE)
    /\ lsbPc' = "extractedTolerant"
    /\ UNCHANGED <<cover, message, embedResult, codecBits, codecText, capacityResult, runVars, txVars, beVars>>

\* extractMessage(image), strict mode, on an image as it was received
ExtractForeign ==
    /\ lsbPc = "input"
    /\ extractResult' = extractMessage(cover, FALSE)
    /\ lsbPc' = "extractedForeign"
    /\ UNCHANGED <<cover, message, embedResult, codecBits, codecText, capacityResult, runVars, txVars, beVars>>

\* stringToBinary(message)
Encode ==
    /\ lsbPc = "input"
    /\ codecBits' = stringToBinary(message)
    /\ lsbPc' = "encoded"
    /\ UNCHANGED <<cover, message, embedResult, extractResult, codecText, capacityResult, runVars, txVars, beVars>>

\* binaryToString(stringToBinary(message))
Decode ==
    /\ lsbPc = "encoded"
    /\ codecText' = binaryToString(codecBits)
    /\ lsbPc' = "decoded"
    /\ UNCHANGED <<cover, message, embedResult, extractResult, codecBits, capacityResult, runVars, txVars, beVars>>

\* calculateCapacity(cover)
Measure ==
    /\ lsbPc = "input"
    /\ capacityResult' = calculateCapacity(cover)
    /\ lsbPc' = "measured"
    /\ UNCHANGED <<cover, message, embedResult, extractResult, codecBits, codecText,
                   runVars, txVars, beVars>>

NextLSB ==
    Embed \/ ExtractStrict \/ ExtractTolerant \/ ExtractForeign \/ Encode \/ Decode
    \/ Measure

SpecLSB == InitLSB /\ [][NextLSB]_vars

-----------------------------------------------------------------------------
(* The recovery functions on damaged input (SpecRecovery) *)

\* Bit strings handed to attemptMessageRecovery: every byte value as the
\* first group and as a later group, and strings with an incomplete last group.
RecoveryBits ==
    {stringToBinary(<<b>>) : b \in 0..255}
    \cup {stringToBinary(<<1, b>>) : b \in 0..255}
    \cup {stringToBinary(str) \o <<1, 0, 1>> : str \in {<<>>, <<65>>, <<1>>, <<200, 65>>, <<1, 200>>}}
    \cup {<<>>}

\* The 16 characters embedMessage writes for a length.
HeaderFor(length) == PadStart(ToDecimalString(length), HeaderChars, 48)

\* Headers that fail validation: 16 times "z", "0000000000000000" and
\* "0000000000010001".
InvalidHeaders ==
    {[j \in 1..HeaderChars |-> 122], HeaderFor(0), HeaderFor(MaxMessageLength + 1)}

\* Bodies of 'A' and SOH of up to three characters, and SOH followed by more
\* than 100 times 'A'.
RecoveryBodies ==
    Strings({65, 1}, 3)
    \cup {[j \in 1..(RecoveryLengthTries + 20) |-> IF j = 1 THEN 1 ELSE 65]}

\* Damaged carriers: a body under an invalid header, a header that announces
\* more characters than the image holds, and covers nothing was embedded in.
DamagedImages ==
    {ForeignImage(hdr, body) : hdr \in InvalidHeaders, body \in RecoveryBodies}
    \cup {ForeignImage(HeaderFor(n), <<65>>) : n \in {1, 2, 3}}
    \cup (Covers \ {CorruptFile})

InitRecovery ==
    /\ \/ cover = NoImage /\ codecBits \in RecoveryBits /\ lsbPc = "bits"
       \/ cover \in DamagedImages /\ codecBits = <<>> /\ lsbPc = "damaged"
    /\ message = <<>>
    /\ embedResult = NoEmbed
    /\ extractResult = NoExtract
    /\ codecText = <<>>
    /\ capacityResult = NoCapacity
    /\ RunnerIdle
    /\ TxIdle
    /\ BackendIdle

\* attemptMessageRecovery(messageBinary)
RecoverMessage ==
    /\ lsbPc = "bits"
    /\ codecText' = attemptMessageRecovery(codecBits)
    /\ lsbPc' = "recovered"
    /\ UNCHANGED <<cover, message, embedResult, extractResult, codecBits, capacityResult, runVars, txVars, beVars>>

\* extractMessage(image, { tolerance: true }) on a damaged carrier
ExtractDamaged ==
    /\ lsbPc = "damaged"
    /\ extractResult' = extractMessage(cover, TRUE)
    /\ lsbPc' = "extractedDamaged"
    /\ UNCHANGED <<cover, message, embedResult, codecBits, codecText, capacityResult, runVars, txVars, beVars>>

NextRecovery == RecoverMessage \/ ExtractDamaged

SpecRecovery == InitRecovery /\ [][NextRecovery]_vars

-----------------------------------------------------------------------------
(* The dry-run runner as a state machine (Spec) *)

\* What the loader can hand over: a cover that holds a one-character message
\* exactly, a cover that holds the header only, and two damaged files.
DatasetImages ==
    {CoverImage(MinPixels + 2, 4, "ramp"), CoverImage(MinPixels, 3, "ramp"),
     TruncatedFile, CorruptFile}

Datasets == UNION {[1..n -> DatasetImages] : n \in 0..DatasetLimit}

\* config.message: 'H', or none
RunnerMessages == {<<72>>, NullMessage}

LSBIdle ==
    /\ cover = NoImage
    /\ message = <<>>
    /\ lsbPc = "idle"
    /\ embedResult = NoEmbed
    /\ extractResult = NoExtract
    /\ codecBits = <<>>
    /\ codecText = <<>>
    /\ capacityResult = NoCapacity

\* main has taken the dry-run branch with the default --dry-run and no
\* ALLOW_TRAINING; runDryRun has created the output directory, loaded the
\* dataset and the model, and stands before the sample loop.
Init ==
    /\ LSBIdle
    /\ TxIdle
    /\ BackendIdle
    /\ allowTraining = NoEnv
    /\ configDryRun = TRUE
    /\ branch = "dryRun"
    /\ \/ /\ config \in [message : RunnerMessages, transforms : Chains]
          /\ dataset \in Datasets
       \/ /\ config \in [message : {LongMessage(LongPrintable, LongControl)},
                          transforms : LongChains]
          /\ dataset = <<LongCover>>
    /\ pc = "samples"
    /\ i = 0
    /\ k = 0
    /\ sample = NewSample(0)
    /\ currentStegoImage = NoImage
    /\ results = NoResults
    /\ metricsFile = NoFile
    /\ applied = <<>>
    /\ exitCode = NoExit
    /\ saveError = FALSE

\* The sample loop's body up to the transform loop: embed in the clean image.
StartSample ==
    /\ pc = "samples"
    /\ i < Len(dataset)
    /\ \E stegoResult \in {dryRun(dataset[i + 1], config.message)} :
          /\ sample' = SampleAfterEmbed(i, stegoResult)
          /\ currentStegoImage' = InitialChainImage(dataset[i + 1], stegoResult)
    /\ k' = 0
    /\ pc' = "chain"
    /\ UNCHANGED <<config, dataset, i, results, metricsFile, applied, mainVars, lsbVars, txVars, gateVars, beVars>>

\* One iteration of the transform loop: apply, extract tolerantly, record.
ChainStep ==
    /\ pc = "chain"
    /\ k < Len(config.transforms)
    /\ LET transform == config.transforms[k + 1]
       IN \E transformResult \in applyTransform(currentStegoImage, transform) :
            /\ ~transformResult.threw
            /\ LET transformedImage == transformResult.image
                   extraction == extractMessage(transformedImage, TRUE)
               IN /\ sample' = [sample EXCEPT !.transforms =
                                    RecordStep(sample.transforms, transform, extraction,
                                               sample.hiddenMessage)]
                  /\ currentStegoImage' = transformedImage
                  /\ applied' = Append(applied,
                                       [sample |-> i, pos |-> k, threw |-> FALSE,
                                        input |-> currentStegoImage,
                                        output |-> transformedImage])
    /\ k' = k + 1
    /\ UNCHANGED <<config, dataset, pc, i, results, metricsFile, mainVars, lsbVars, txVars, gateVars, beVars>>

\* An iteration whose applyTransform throws: the error leaves both loops and
\* reaches runDryRun's catch block, which saves the partial results and
\* throws the error on to main.
ChainStepThrows ==
    /\ pc = "chain"
    /\ k < Len(config.transforms)
    /\ \E transformResult \in applyTransform(currentStegoImage, config.transforms[k + 1]) :
         /\ transformResult.threw
         /\ results' = FailedResults(results, transformResult.error)
         /\ applied' = Append(applied,
                              [sample |-> i, pos |-> k, threw |-> TRUE,
                               input |-> currentStegoImage, output |-> NoImage])
    /\ \E saved \in SavePartialResults(metricsFile, results') :
         /\ metricsFile' = saved.file
         /\ saveError' = saved.saveError
    /\ pc' = "failed"
    /\ UNCHANGED <<config, dataset, i, k, sample, currentStegoImage, exitCode, lsbVars, txVars, gateVars, beVars>>

\* After the transform loop: the sample's robustness figures, and the push.
FinalizeSample ==
    /\ pc = "chain"
    /\ k = Len(config.transforms)
    /\ LET n == Len(sample.transforms)
           finished ==
               [sample EXCEPT
                  !.robustnessScore =
                      IF Len(config.transforms) > 0
                      THEN RatDivInt(TotalRecoveryScore(sample.transforms),
                                     Len(config.transforms))
                      ELSE RatOne,
                  !.finalMessageVerified =
                      IF n > 0 THEN sample.transforms[n].extractionSuccess ELSE TRUE,
                  !.extractedMessage =
                      IF n > 0 THEN sample.transforms[n].extractedMessage
                      ELSE sample.extractedMessage,
                  !.messageVerified =
                      IF n > 0 THEN sample.transforms[n].extractionSuccess
                      ELSE sample.messageVerified]
       IN /\ sample' = finished
          /\ results' = [results EXCEPT !.samples = Append(results.samples, finished)]
    /\ i' = i + 1
    /\ pc' = "samples"
    /\ UNCHANGED <<config, dataset, k, currentStegoImage, metricsFile, applied, mainVars, lsbVars, txVars, gateVars, beVars>>

\* After the sample loop: aggregate, mark completed, write metrics.json and
\* the log file.
CompleteRun ==
    /\ pc = "samples"
    /\ i = Len(dataset)
    /\ results' = [results EXCEPT !.status = "completed",
                                  !.metrics = computeMetrics(results.samples)]
    /\ metricsFile' = FileOf(results')
    /\ pc' = "done"
    /\ UNCHANGED <<config, dataset, i, k, sample, currentStegoImage, applied, mainVars,
                   lsbVars, txVars, gateVars, beVars>>

\* The same, when writing metrics.json or, after it, the log file fails: the
\* error reaches the catch block.
CompleteRunThrows ==
    /\ pc = "samples"
    /\ i = Len(dataset)
    /\ LET completed == [results EXCEPT !.status = "completed",
                                        !.metrics = computeMetrics(results.samples)]
       IN /\ results' = FailedResults(completed, "write")
          /\ \E written \in {NoFile, FileOf(completed)} :
                \E saved \in SavePartialResults(written, results') :
                   /\ metricsFile' = saved.file
                   /\ saveError' = saved.saveError
    /\ pc' = "failed"
    /\ UNCHANGED <<config, dataset, i, k, sample, currentStegoImage, applied, exitCode,
                   lsbVars, txVars, gateVars, beVars>>

\* main: the error of runDryRun is logged and the process exits with code 1.
MainExitFailure ==
    /\ pc = "failed"
    /\ exitCode = NoExit
    /\ exitCode' = 1
    /\ UNCHANGED <<config, dataset, pc, i, k, sample, currentStegoImage, results,
                   metricsFile, applied, saveError, lsbVars, txVars, gateVars, beVars>>

\* main: runDryRun returned; main returns and the process ends with code 0.
MainReturn ==
    /\ pc = "done"
    /\ exitCode = NoExit
    /\ exitCode' = 0
    /\ UNCHANGED <<config, dataset, pc, i, k, sample, currentStegoImage, results,
                   metricsFile, applied, saveError, lsbVars, txVars, gateVars, beVars>>

Next ==
    \/ StartSample \/ ChainStep \/ ChainStepThrows \/ FinalizeSample
    \/ CompleteRun \/ CompleteRunThrows \/ MainExitFailure \/ MainReturn

Spec == Init /\ [][Next]_vars

-----------------------------------------------------------------------------
(* main from its start: the training gate and the branch taken (SpecMain) *)

\* isTrainingAllowed with the gate left open whatever the environment says
isTrainingAllowedAnyEnv(dryRunOption, env) == ~dryRunOption

\* isTrainingAllowed(config)
isTrainingAllowed(dryRunOption, env) == ~dryRunOption /\ env = "true"

\* Values of ALLOW_TRAINING
EnvValues == {NoEnv, "true", "false", "TRUE", "1"}

\* Chains and datasets of the runs followed from the start of main
MainChains == {<<>>} \cup {<<t>> : t \in TransformSpecs}
MainDatasets == {<<>>} \cup {<<img>> : img \in DatasetImages}

\* main stands after loadConfig.
InitMain ==
    /\ LSBIdle
    /\ TxIdle
    /\ BackendIdle
    /\ allowTraining \in EnvValues
    /\ configDryRun \in BOOLEAN
    /\ branch = "none"
    /\ config \in [message : RunnerMessages, transforms : MainChains]
    /\ dataset \in MainDatasets
    /\ pc = "main"
    /\ i = 0
    /\ k = 0
    /\ sample = NewSample(0)
    /\ currentStegoImage = NoImage
    /\ results = NoResults
    /\ metricsFile = NoFile
    /\ applied = <<>>
    /\ exitCode = NoExit
    /\ saveError = FALSE

\* if (config.dryRun || !trainingAllowed) runDryRun(config)
MainDryRun ==
    /\ pc = "main"
    /\ configDryRun \/ ~isTrainingAllowed(configDryRun, allowTraining)
    /\ branch' = "dryRun"
    /\ pc' = "samples"
    /\ UNCHANGED <<config, dataset, i, k, sample, currentStegoImage, results,
                   metricsFile, applied, mainVars, allowTraining, configDryRun,
                   lsbVars, txVars, beVars>>

\* else: the training branch is entered
MainTraining ==
    /\ pc = "main"
    /\ ~(configDryRun \/ ~isTrainingAllowed(configDryRun, allowTraining))
    /\ branch' = "training"
    /\ pc' = "training"
    /\ UNCHANGED <<config, dataset, i, k, sample, currentStegoImage, results,
                   metricsFile, applied, mainVars, allowTraining, configDryRun,
                   lsbVars, txVars, beVars>>

\* The placeholder results ('skipped') are written and the process exits with
\* code 1; a failing mkdir or writeFile reaches the catch, which exits with 1.
TrainingPlaceholder ==
    /\ pc = "training"
    /\ \E written \in BOOLEAN :
          metricsFile' = IF written THEN FileOf([NoResults EXCEPT !.status = "skipped"])
                         ELSE metricsFile
    /\ exitCode' = 1
    /\ pc' = "skipped"
    /\ UNCHANGED <<config, dataset, i, k, sample, currentStegoImage, results,
                   applied, saveError, gateVars, lsbVars, txVars, beVars>>

NextMain == MainDryRun \/ MainTraining \/ TrainingPlaceholder \/ Next

SpecMain == InitMain /\ [][NextMain]_vars

-----------------------------------------------------------------------------
(* The transforms on their own, called directly and through applyTransform
   (SpecTx) *)

\* Stego images: 'H' in a 34-pixel cover, and 30 times 'A' in the cover that
\* holds it exactly.
TxCarriers ==
    {[message |-> msg.text, stego |-> embedMessage(msg.cover, msg.text).stegoImage] :
        msg \in {[text |-> <<72>>, cover |-> CoverImage(MinPixels + 2, 4, "ramp")],
                 [text |-> LongMessage(CanonicalLength, 0),
                  cover |-> CoverImage((HeaderBits + ByteBits * CanonicalLength) \div 4,
                                       4, "ramp")]}}

\* Specifications with the parameter where applyTransform reads it: absent,
\* zero, inside and outside the range the transform accepts.
TxSpecs ==
    {[TransformSpec("jpeg") EXCEPT !.quality = v] : v \in {Absent, 0, 80, 101}}
    \cup {[TransformSpec("jpeg") EXCEPT !.params.quality = 150]}
    \cup {[TransformSpec("noise") EXCEPT !.sigma = v] : v \in {Absent, 0, 50, 1500}}
    \cup {[TransformSpec("blur") EXCEPT !.params.sigma = v] :
              v \in {Absent, 0, 100, 3000, -1000}}
    \cup {[TransformSpec("crop") EXCEPT !.params.ratio = v] : v \in {Absent, 0, 1000, 1500}}
    \cup {[TransformSpec("bit-corruption") EXCEPT !.rate = v] : v \in {Absent, 0, 2, 300}}

\* The value a specification gives for the parameter, read from a and then
\* from b: the first that is neither absent nor zero, else zero if one of
\* them is zero, else absent.
Given(a, b) ==
    IF ~Falsy(a) THEN a ELSE IF ~Falsy(b) THEN b
    ELSE IF a = 0 \/ b = 0 THEN 0 ELSE Absent

\* The parameter a specification asks for.
Requested(transform) ==
    CASE transform.name = "jpeg" -> Given(transform.quality, transform.params.quality)
      [] transform.name = "noise" -> Given(transform.sigma, transform.params.sigma)
      [] transform.name = "blur" -> Given(transform.params.sigma, transform.params.radius)
      [] transform.name = "crop" -> Given(transform.params.ratio, Absent)
      [] transform.name = "bit-corruption" -> Given(transform.rate, transform.params.rate)
      [] OTHER -> Absent

\* The transform function called directly with that parameter; an absent
\* argument takes the default of the function's signature.
DirectCall(image, transform) ==
    LET v == Requested(transform)
    IN CASE transform.name = "jpeg" ->
               applyJpeg(image, IF v = Absent THEN DefaultJpegQuality ELSE v)
         [] transform.name = "noise" ->
               applyGaussianNoise(image, IF v = Absent THEN DefaultNoiseSigma ELSE v)
         [] transform.name = "blur" ->
               applyBlur(image, IF v = Absent THEN DefaultBlurSigma ELSE v)
         [] transform.name = "crop" ->
               applyCrop(image, IF v = Absent THEN DefaultCropRatio ELSE v)
         [] transform.name = "bit-corruption" ->
               applyBitCorruption(image, IF v = Absent THEN DefaultCorruptionRate ELSE v)

InitTx ==
    /\ txCarrier \in TxCarriers
    /\ txSpec \in TxSpecs
    /\ txPc = "input"
    /\ txResult = Threw("none")
    /\ txExtract = ExtractError("none")
    /\ LSBIdle
    /\ RunnerIdle
    /\ BackendIdle

\* applyJpeg, applyGaussianNoise, applyBlur, applyCrop, applyBitCorruption
CallDirect ==
    /\ txPc = "input"
    /\ txResult' \in DirectCall(txCarrier.stego, txSpec)
    /\ txPc' = "direct"
    /\ UNCHANGED <<txCarrier, txSpec, txExtract, lsbVars, runVars, beVars>>

\* applyTransform(image, transform)
Dispatch ==
    /\ txPc = "input"
    /\ txResult' \in applyTransform(txCarrier.stego, txSpec)
    /\ txPc' = "dispatched"
    /\ UNCHANGED <<txCarrier, txSpec, txExtract, lsbVars, runVars, beVars>>

\* extractMessage(transformedBuffer, { tolerance: true })
ExtractTransformed ==
    /\ txPc \in {"direct", "dispatched"}
    /\ ~txResult.threw
    /\ txExtract' = extractMessage(txResult.image, TRUE)
    /\ txPc' = IF txPc = "direct" THEN "directExtracted" ELSE "dispatchedExtracted"
    /\ UNCHANGED <<txCarrier, txSpec, txResult, lsbVars, runVars, beVars>>

NextTx == CallDirect \/ Dispatch \/ ExtractTransformed

SpecTx == InitTx /\ [][NextTx]_vars

-----------------------------------------------------------------------------
(* The backend: concurrent POST /experiments/:id/run on one experiment
   (SpecBackend).  Node runs one continuation at a time; every await is a
   point where the continuations of other requests and handlers may run. *)

InitBackend ==
    /\ BackendIdle
    /\ LSBIdle
    /\ RunnerIdle
    /\ TxIdle

\* await db.read(), first half: the adapter reads db.json.
RunRead(r) ==
    /\ requests[r].pc = "new"
    /\ requests' = [requests EXCEPT ![r] = [pc |-> "reading", seen |-> dbFile]]
    /\ UNCHANGED <<dbFile, dbData, objects, writes, children,
                   lsbVars, runVars, txVars>>

\* await db.read(), second half: this.data = the parsed file, a new object.
RunLoaded(r) ==
    /\ requests[r].pc = "reading"
    /\ objects' = [objects EXCEPT ![r] = requests[r].seen]
    /\ dbData' = r
    /\ requests' = [requests EXCEPT ![r].pc = "loaded"]
    /\ UNCHANGED <<dbFile, writes, children,
                   lsbVars, runVars, txVars>>

\* The handler resumes: find the experiment in db.data; 409 if its status is
\* 'running', else set it to 'running' and call db.write().
RunCheck(r) ==
    /\ requests[r].pc = "loaded"
    /\ IF objects[dbData] = "running"
       THEN /\ requests' = [requests EXCEPT ![r].pc = "conflict"]
            /\ UNCHANGED <<objects, writes>>
       ELSE /\ objects' = [objects EXCEPT ![dbData] = "running"]
            /\ writes' = Append(writes, [by |-> r, status |-> "running"])
            /\ requests' = [requests EXCEPT ![r].pc = "writing"]
    /\ UNCHANGED <<dbFile, dbData, children,
                   lsbVars, runVars, txVars>>

\* The write of the handler reaches db.json; await db.write() returns.
RunWritten(r) ==
    /\ requests[r].pc = "writing"
    /\ writes # <<>> /\ Head(writes).by = r
    /\ dbFile' = Head(writes).status
    /\ writes' = Tail(writes)
    /\ requests' = [requests EXCEPT ![r].pc = "mkdir"]
    /\ UNCHANGED <<dbData, objects, children,
                   lsbVars, runVars, txVars>>

\* await fs.mkdir(outputDir), then spawn('node', args) and the response.
RunSpawn(r) ==
    /\ requests[r].pc = "mkdir"
    /\ requests' = [requests EXCEPT ![r].pc = "started"]
    /\ children' = [children EXCEPT ![r].state = "running"]
    /\ UNCHANGED <<dbFile, dbData, objects, writes,
                   lsbVars, runVars, txVars>>

\* fs.mkdir throws: the catch answers 500, nothing is spawned and the stored
\* status is left as written.
RunMkdirFails(r) ==
    /\ requests[r].pc = "mkdir"
    /\ requests' = [requests EXCEPT ![r].pc = "error"]
    /\ UNCHANGED <<dbFile, dbData, objects, writes, children,
                   lsbVars, runVars, txVars>>

\* The runner exits; 'close' fires and its handler starts db.read().
ChildClose(r) ==
    /\ children[r].state = "running"
    /\ \E code \in {0, 1} :
          children' = [children EXCEPT ![r] = [state |-> "reading", code |-> code,
                                               seen |-> dbFile]]
    /\ UNCHANGED <<dbFile, dbData, objects, requests, writes,
                   lsbVars, runVars, txVars>>

\* close handler, await db.read(), second half
CloseLoaded(r) ==
    /\ children[r].state = "reading"
    /\ objects' = [objects EXCEPT ![MaxRequests + r] = children[r].seen]
    /\ dbData' = MaxRequests + r
    /\ children' = [children EXCEPT ![r].state = "loaded"]
    /\ UNCHANGED <<dbFile, requests, writes,
                   lsbVars, runVars, txVars>>

\* close handler: exp.status = code === 0 ? 'completed' : 'failed'; db.write()
CloseSet(r) ==
    /\ children[r].state = "loaded"
    /\ \E status \in {IF children[r].code = 0 THEN "completed" ELSE "failed"} :
          /\ objects' = [objects EXCEPT ![dbData] = status]
          /\ writes' = Append(writes, [by |-> MaxRequests + r, status |-> status])
    /\ children' = [children EXCEPT ![r].state = "writing"]
    /\ UNCHANGED <<dbFile, dbData, requests,
                   lsbVars, runVars, txVars>>

\* The write of the close handler reaches db.json.
CloseWritten(r) ==
    /\ children[r].state = "writing"
    /\ writes # <<>> /\ Head(writes).by = MaxRequests + r
    /\ dbFile' = Head(writes).status
    /\ writes' = Tail(writes)
    /\ children' = [children EXCEPT ![r].state = "closed"]
    /\ UNCHANGED <<dbData, objects, requests,
                   lsbVars, runVars, txVars>>

NextBackend ==
    \E r \in Requests :
        \/ RunRead(r) \/ RunLoaded(r) \/ RunCheck(r) \/ RunWritten(r)
        \/ RunSpawn(r) \/ RunMkdirFails(r)
        \/ ChildClose(r) \/ CloseLoaded(r) \/ CloseSet(r) \/ CloseWritten(r)

SpecBackend == InitBackend /\ [][NextBackend]_vars

-----------------------------------------------------------------------------
(* Claims about the codec and the embed/extract engine (SpecLSB) *)

\* The raw byte count of the carrier: four bytes per pixel once alpha is ensured.
RawByteCount(img) == img.width * img.height * 4

\* Bit idx (1-based) of the payload: bit (idx-1) mod 8, most significant first, of
\* character (idx-1) div 8 of the 16-digit header followed by the message.
ExpectedHeader(str) ==
    [j \in 1..HeaderChars |->
        IF HeaderChars - j > 8 THEN 48      \* lengths stay below 10^9
        ELSE 48 + ((Len(str) \div (10 ^ (HeaderChars - j))) % 10)]
ExpectedPayloadBit(str, idx) ==
    LET c == (ExpectedHeader(str) \o str)[((idx - 1) \div 8) + 1]
    IN (c \div (2 ^ (7 - ((idx - 1) % 8)))) % 2

\* C1 as stated: strict extraction of the stego image returns every ASCII
\* message that fits, of any length from 0 up, with recoveryScore 1.0.
C1_RoundTripAnyLength ==
    (lsbPc = "extractedStrict" /\ IsAscii(message))
        => /\ extractResult.ok
           /\ extractResult.message = message
           /\ RatEq(extractResult.recoveryScore, RatOne)

\* C1 amended: strict extraction of the stego image returns every ASCII
\* message of 1 to 10000 characters that fits, with recoveryScore 1.0.
C1_RoundTripNonEmpty ==
    (lsbPc = "extractedStrict" /\ IsAscii(message)
       /\ Len(message) >= 1 /\ Len(message) <= MaxMessageLength)
        => /\ extractResult.ok
           /\ extractResult.message = message
           /\ RatEq(extractResult.recoveryScore, RatOne)

C1_Witness ==
    /\ lsbPc = "extractedStrict" /\ IsAscii(message) /\ Len(message) >= 2
    /\ cover.channels = 3
    /\ extractResult.ok /\ extractResult.message = message

\* C2: embedMessage succeeds exactly when 8 * (16 + length) is at most the raw
\* byte count of the carrier, and otherwise fails with a capacity error and
\* no stego image (messages of one-byte characters, decodable cover).
C2_CapacityBoundary ==
    (lsbPc \in {"embedded", "embedFailed"} /\ cover.decodable /\ IsSingleByte(message))
        => /\ embedResult.ok <=> (8 * (16 + Len(message)) <= RawByteCount(cover))
           /\ ~embedResult.ok =>
                 (embedResult.error = "capacity" /\ embedResult.stegoImage = NoImage)

C2_WitnessExact ==
    /\ lsbPc = "embedded" /\ Len(message) >= 1
    /\ 8 * (16 + Len(message)) = RawByteCount(cover)

C2_WitnessOver ==
    /\ lsbPc = "embedFailed" /\ cover.decodable /\ IsSingleByte(message)
    /\ 8 * (16 + Len(message)) > RawByteCount(cover)
    /\ 8 * (16 + Len(message)) <= RawByteCount(cover) + 8

C2_Witness == C2_WitnessExact \/ C2_WitnessOver

\* C3: binaryToString(stringToBinary(s)) = s and stringToBinary(s) has 8 bits
\* per character, for every s of code points 0..255.
C3_CodecRoundTrip ==
    (lsbPc = "decoded" /\ IsSingleByte(message))
        => /\ codecText = message
           /\ Len(codecBits) = 8 * Len(message)

C3_Witness ==
    /\ lsbPc = "decoded" /\ IsSingleByte(message) /\ Len(message) >= 2
    /\ \E j \in 1..Len(message) : message[j] > 127
    /\ \E j \in 1..Len(message) : message[j] < 32
    /\ codecText = message

\* C4: in the stego buffer, byte idx of the payload region differs from the
\* cover's byte at most in its least significant bit, which is payload bit
\* i, and every byte beyond the payload equals the cover's byte.
C4_EmbeddingFrame ==
    (lsbPc = "embedded" /\ IsSingleByte(message))
        => LET raw == RawWithAlpha(cover)
               out == embedResult.stegoImage.data
               n == 8 * (HeaderChars + Len(message))
           IN /\ Len(out) = Len(raw)
              /\ \A idx \in 1..Len(out) :
                    IF idx <= n
                    THEN /\ out[idx] \div 2 = raw[idx] \div 2
                         /\ out[idx] % 2 = ExpectedPayloadBit(message, idx)
                    ELSE out[idx] = raw[idx]

C4_Witness ==
    /\ lsbPc = "embedded" /\ IsSingleByte(message) /\ Len(message) >= 1
    /\ LET raw == RawWithAlpha(cover)
           out == embedResult.stegoImage.data
       IN /\ \E idx \in 1..(8 * (HeaderChars + Len(message))) : out[idx] # raw[idx]
          /\ Len(out) > 8 * (HeaderChars + Len(message))

-----------------------------------------------------------------------------
(* Claims about the runner (Spec) *)

\* The samples that exist: those pushed to the results and, inside the
\* transform loop, the one under construction.
RecordedSamples == {results.samples[n] : n \in 1..Len(results.samples)}
LiveSamples ==
    RecordedSamples
    \cup (IF pc = "chain" \/ (pc = "failed" /\ i < Len(dataset)) THEN {sample} ELSE {})

\* What model.dryRun returned for the sample of index idx.
EmbedOutcome(idx) == dryRun(dataset[idx + 1], config.message)

\* C5: every sample recorded in the run result has exactly N step results,
\* the k-th being that of the k-th configured transform, whatever the
\* outcomes of the steps.
C5_ChainBookkeeping ==
    \A s \in RecordedSamples :
        /\ Len(s.transforms) = Len(config.transforms)
        /\ \A n \in 1..Len(s.transforms) :
              /\ s.transforms[n].name = config.transforms[n].name
              /\ s.transforms[n].params = config.transforms[n]

C5_Witness ==
    \E s \in RecordedSamples :
        /\ Len(s.transforms) >= 2
        /\ s.transforms[1].extractionSuccess
        /\ s.transforms[2].partialRecovery
        /\ s.transforms[1].name # s.transforms[2].name

\* C6 as stated: the transform at position 0 reads the freshly embedded
\* stego image and the transform at position k >= 1 reads the output of
\* position k-1; the cover is never the input of a transform.
C6_FeedForward ==
    \A n \in 1..Len(applied) :
        IF applied[n].pos = 0
        THEN /\ EmbedOutcome(applied[n].sample).hasStego
             /\ applied[n].input = EmbedOutcome(applied[n].sample).stegoImage
        ELSE applied[n].input = applied[n - 1].output

\* C7: an extraction that throws at position k leaves a step result with
\* recoveryScore 0, both flags false and the error message; the chain goes
\* on from the transform output of position k, and the run does not fail
\* because of it.
C7_ExtractionFailureTolerated ==
    /\ \A s \in LiveSamples : \A n \in 1..Len(s.transforms) :
          s.transforms[n].hasError =>
              /\ RatEq(s.transforms[n].recoveryScore, RatZero)
              /\ ~s.transforms[n].extractionSuccess
              /\ ~s.transforms[n].partialRecovery
              /\ s.transforms[n].error # "none"
    /\ \A n \in 1..Len(applied) :
          (~applied[n].threw /\ ~extractMessage(applied[n].output, TRUE).ok) =>
              /\ \E s \in LiveSamples :
                    /\ s.id = applied[n].sample
                    /\ Len(s.transforms) > applied[n].pos
                    /\ s.transforms[applied[n].pos + 1].hasError
              /\ (n < Len(applied) /\ applied[n + 1].sample = applied[n].sample) =>
                    /\ applied[n + 1].pos = applied[n].pos + 1
                    /\ applied[n + 1].input = applied[n].output
              /\ pc = "failed" => \/ results.error = "write"
                                  \/ (n < Len(applied) /\ applied[Len(applied)].threw)

C7_Witness ==
    /\ results.status = "completed"
    /\ \E s \in RecordedSamples :
          /\ Len(s.transforms) >= 2
          /\ s.transforms[1].hasError
          /\ s.transforms[2].hasError
    /\ \E n \in 1..Len(applied) : applied[n].pos = 1 /\ ~applied[n].threw

\* C8 as stated: when embedding fails for a sample, no transform is applied
\* for that sample and no step result is produced for it.
C8_EmbedFailureAbortsSample ==
    /\ \A n \in 1..Len(applied) : EmbedOutcome(applied[n].sample).success
    /\ \A s \in LiveSamples :
          ~EmbedOutcome(s.id).success => s.transforms = <<>>

\* C9 as stated: when applyTransform throws at position k, the sample is
\* retained in the run result with the step results of positions 0..k-1.
C9_TransformFailureKeepsSample ==
    \A n \in 1..Len(applied) :
        applied[n].threw =>
            \E s \in RecordedSamples :
                /\ s.id = applied[n].sample
                /\ Len(s.transforms) >= applied[n].pos

\* C10 as stated: a failure while processing a sample does not end the run:
\* unless writing the results fails, the run ends in its completion step
\* with every sample of the dataset in the result.
C10_RunSurvivesSampleFailure ==
    (pc \in {"done", "failed"} /\ results.error # "write") =>
        /\ results.status = "completed"
        /\ \A idx \in 0..(Len(dataset) - 1) : \E s \in RecordedSamples : s.id = idx

\* The step result recorded for the n-th call of applyTransform, as a set:
\* empty when the call threw, a singleton otherwise.
StepsOfCall(n) ==
    {s.transforms[applied[n].pos + 1] :
        s \in {t \in LiveSamples : /\ t.id = applied[n].sample
                                   /\ Len(t.transforms) > applied[n].pos}}

\* The hidden message of the sample the n-th call belongs to.
HiddenOfCall(n) == SampleAfterEmbed(applied[n].sample, EmbedOutcome(applied[n].sample)).hiddenMessage

\* C11: a recorded step is perfect exactly when the extracted text equals the
\* hidden message, partial exactly when it is non-empty and differs, lost
\* (neither flag) exactly when extraction threw or returned empty text; the
\* two flags are never both true.
C11_StepClassification ==
    \A n \in 1..Len(applied) : \A step \in StepsOfCall(n) :
        LET ext == extractMessage(applied[n].output, TRUE)
            perfect == step.extractionSuccess
            partial == step.partialRecovery
        IN /\ ~(perfect /\ partial)
           /\ perfect <=> (ext.ok /\ ext.message = HiddenOfCall(n))
           /\ partial <=> (ext.ok /\ Len(ext.message) > 0 /\ ext.message # HiddenOfCall(n))
           /\ (~perfect /\ ~partial) <=> (~ext.ok \/ ext.message = <<>>)

C11_Witness ==
    /\ \E s \in LiveSamples : \E n \in 1..Len(s.transforms) : s.transforms[n].extractionSuccess
    /\ \E s \in LiveSamples : \E n \in 1..Len(s.transforms) : s.transforms[n].partialRecovery
    /\ \E s \in LiveSamples : \E n \in 1..Len(s.transforms) :
          /\ ~s.transforms[n].extractionSuccess
          /\ ~s.transforms[n].partialRecovery

\* The contribution of a step: 1 for a perfect step, its recoveryScore for a
\* partial step, 0 for a lost step.
StepContribution(step) ==
    IF step.extractionSuccess THEN RatOne
    ELSE IF step.partialRecovery THEN step.recoveryScore
    ELSE RatZero

RECURSIVE SumContribution(_)
SumContribution(steps) ==
    IF steps = <<>> THEN RatZero
    ELSE RatAdd(StepContribution(Head(steps)), SumContribution(Tail(steps)))

\* C12: the robustnessScore of a recorded sample is the sum of its steps'
\* contributions divided by the number N of configured transforms, and is
\* exactly 1 when N = 0.
C12_RobustnessScore ==
    \A s \in RecordedSamples :
        LET n == Len(config.transforms)
            total == SumContribution(s.transforms)
        IN IF n = 0 THEN s.robustnessScore = RatOne
           ELSE s.robustnessScore.num * total.den * n = total.num * s.robustnessScore.den

C12_Witness ==
    \E s \in RecordedSamples :
        /\ Len(config.transforms) = 2
        /\ \E n \in 1..2 : s.transforms[n].extractionSuccess
        /\ \E n \in 1..2 : /\ s.transforms[n].partialRecovery
                           /\ RatLt(RatZero, s.transforms[n].recoveryScore)
        /\ RatLt(Rat(1, 2), s.robustnessScore)
        /\ RatLt(s.robustnessScore, RatOne)

-----------------------------------------------------------------------------
(* Further claims about the codec and the embed/extract engine (SpecLSB) *)

\* C13 as stated: the recoveryScore returned by extractMessage lies in [0,1],
\* in strict and in tolerant mode.
C13_RecoveryScoreRange ==
    (lsbPc \in {"extractedStrict", "extractedTolerant", "extractedForeign"}
       /\ extractResult.ok)
        => /\ RatLeq(RatZero, extractResult.recoveryScore)
           /\ RatLeq(extractResult.recoveryScore, RatOne)

\* The 16 characters the first 128 least significant bits of an image spell.
HeaderText(img) ==
    binaryToString([j \in 1..HeaderBits |-> LSBit(RawWithAlpha(img), j - 1)])

IsDecimal(str) == \A j \in 1..Len(str) : str[j] >= 48 /\ str[j] <= 57

\* The value of a string of decimal digits, no larger than MaxMessageLength + 1.
RECURSIVE DecimalValue(_)
DecimalValue(str) ==
    IF str = <<>> THEN 0
    ELSE Min(MaxMessageLength + 1,
             10 * DecimalValue(SubSeq(str, 1, Len(str) - 1)) + (str[Len(str)] - 48))

\* C15 as stated: strict extraction fails whenever the header is not a
\* decimal integer in (0,10000], and only otherwise returns the text of the
\* next length*8 least significant bits.
C15_StrictHeaderValidation ==
    (lsbPc = "extractedForeign" /\ cover.decodable)
        => LET hdr == HeaderText(cover)
               valid == /\ IsDecimal(hdr)
                        /\ DecimalValue(hdr) > 0
                        /\ DecimalValue(hdr) <= MaxMessageLength
           IN /\ extractResult.ok <=> valid
              /\ valid =>
                    extractResult.message =
                        binaryToString([j \in 1..(ByteBits * DecimalValue(hdr)) |->
                                           LSBit(RawWithAlpha(cover), HeaderBits + j - 1)])

\* C19 as stated: binaryToString of a bit string of length L has exactly
\* floor(L/8) characters.
C19_TrailingGroupDropped ==
    lsbPc = "decoded" => Len(codecText) = Len(codecBits) \div ByteBits

-----------------------------------------------------------------------------
(* Further claims about the runner (Spec) *)

\* C16: when runDryRun has failed, the results carry status 'failed' and the
\* error, and metrics.json holds exactly them unless saving failed; the
\* process exits with a non-zero code exactly when the run failed; a run
\* that completed has written status 'completed'.
C16_RunLevelFailure ==
    /\ pc = "failed" =>
          /\ results.status = "failed"
          /\ results.error # "none"
          /\ saveError \/ metricsFile = FileOf(results)
    /\ exitCode # NoExit => (exitCode # 0 <=> pc = "failed")
    /\ pc = "done" =>
          /\ results.status = "completed"
          /\ metricsFile.written
          /\ metricsFile.content.status = "completed"

C16_Witness ==
    /\ exitCode = 1
    /\ ~saveError
    /\ metricsFile.written
    /\ metricsFile.content.status = "failed"
    /\ metricsFile.content.error = "codec"
    /\ Len(metricsFile.content.samples) >= 1

\* C20 as stated: after the aggregation every transform name that occurs in
\* the samples' step lists has a per-transform entry, and the composite
\* robustness score lies in [0,100].
C20_Aggregation ==
    (pc = "done" /\ results.samples # <<>>) =>
        /\ \A s \in RecordedSamples : \A n \in 1..Len(s.transforms) :
              \E entry \in results.metrics.byTransform : entry.type = s.transforms[n].name
        /\ results.metrics.hasScore
        /\ RatLeq(RatZero, results.metrics.robustnessScore)
        /\ RatLeq(results.metrics.robustnessScore, Rat(100, 1))

-----------------------------------------------------------------------------
(* Claims about the transforms (SpecTx) *)

\* The parameter asked for lies outside the range the transform accepts.
OutOfRange(transform) ==
    LET v == Requested(transform)
    IN /\ v # Absent
       /\ CASE transform.name = "jpeg" -> v < 1 \/ v > 100
            [] transform.name = "noise" -> v < 0 \/ v > Thousandths
            [] transform.name = "blur" -> 10 * v < 3 * Thousandths \/ v > 1000 * Thousandths
            [] transform.name = "crop" -> v <= 0 \/ v > Thousandths
            [] OTHER -> FALSE

\* C17 as stated: a recompress, blur, noise or crop step whose parameter is
\* out of range fails and produces no buffer, called directly or dispatched
\* by applyTransform.
C17_ParameterValidation ==
    (txPc \in {"direct", "dispatched"} /\ OutOfRange(txSpec))
        => (txResult.threw /\ txResult.image = NoImage)

\* C18 as stated: bit corruption with rate 0 flips no bit of the raw buffer
\* of a stego image, and tolerant extraction of the result returns the
\* hidden message with recoveryScore 1.0.
C18_ZeroRateCorruption ==
    (txSpec.name = "bit-corruption" /\ Requested(txSpec) = 0)
        => /\ txPc \in {"direct", "dispatched"} =>
                 /\ ~txResult.threw
                 /\ RawWithAlpha(txResult.image) = RawWithAlpha(txCarrier.stego)
           /\ txPc \in {"directExtracted", "dispatchedExtracted"} =>
                 /\ txExtract.ok
                 /\ txExtract.message = txCarrier.message
                 /\ RatEq(txExtract.recoveryScore, RatOne)

-----------------------------------------------------------------------------
(* Claims about the runner's scores (Spec) *)

\* C14 as stated: the robustnessScore of every sample written to the results
\* lies within [0,1], for every chain and every combination of step outcomes.
C14_RobustnessScoreRange ==
    \A n \in 1..Len(results.samples) :
        LET score == results.samples[n].robustnessScore
        IN score # NoScore => (RatLeq(RatZero, score) /\ RatLeq(score, RatOne))

-----------------------------------------------------------------------------
(* Claims about main (SpecMain) *)

\* C21: when ALLOW_TRAINING is not the string 'true', main takes the dry-run
\* branch whatever config.dryRun is and never the training branch; the
\* training branch is taken only when dry-run is off and ALLOW_TRAINING is
\* 'true', and it processes no sample and exits with a non-zero code.
C21_TrainingGate ==
    /\ (allowTraining # "true" /\ branch # "none") => branch = "dryRun"
    /\ branch = "training" => (~configDryRun /\ allowTraining = "true")
    /\ branch = "training" =>
          /\ results.samples = <<>> /\ applied = <<>> /\ i = 0
          /\ pc \in {"training", "skipped"}
          /\ exitCode \in {NoExit, 1}
          /\ pc = "skipped" => exitCode = 1

\* Dry-run was switched off without ALLOW_TRAINING = 'true', and the forced
\* dry run has processed a sample.
C21_Witness ==
    /\ ~configDryRun /\ allowTraining \in {"false", "TRUE"}
    /\ branch = "dryRun" /\ Len(results.samples) > 0

\* The training branch was taken and the process has exited.
C21_WitnessTraining ==
    branch = "training" /\ pc = "skipped" /\ exitCode = 1 /\ metricsFile.written

-----------------------------------------------------------------------------
(* Claims about tolerant extraction and recovery (SpecLSB) *)

\* The body bits extractMessage decodes in tolerant mode: 8 per character of
\* the header's length, or of the recovered length when the header is invalid.
BodyBits(img) ==
    LET data == RawWithAlpha(img)
        parsed == ParseInt(binaryToString([idx \in 1..HeaderBits |-> LSBit(data, idx - 1)]))
        len == IF ~parsed.nan /\ parsed.val > 0 /\ parsed.val <= MaxMessageLength
               THEN parsed.val ELSE attemptLengthRecovery(data)
    IN [idx \in 1..(len * ByteBits) |-> LSBit(data, HeaderBits + idx - 1)]

\* C22 as stated: in tolerant mode, whenever a decoded body byte is outside
\* printable ASCII, or the printable ratio of the decoded message is below
\* 0.7, extractMessage returns wasCorrupted = true and the message is the
\* output of character-level recovery.
C22_CorruptionDetection ==
    (lsbPc = "extractedTolerant" /\ extractResult.ok) =>
        LET bin == BodyBits(embedResult.stegoImage)
            decoded == binaryToString(bin)
        IN (\/ \E j \in 1..Len(decoded) : ~IsPrintable(decoded[j])
            \/ (Len(decoded) > 0 /\ 10 * PrintableCount(decoded) < 7 * Len(decoded)))
           => /\ extractResult.wasCorrupted
              /\ extractResult.message = attemptMessageRecovery(bin)

-----------------------------------------------------------------------------
(* Claims about character-level recovery (SpecRecovery) *)

\* The values of the complete 8-bit groups of a bit string, in order.
Groups(bits) ==
    [g \in 1..(Len(bits) \div ByteBits) |->
        BinaryValue(SubSeq(bits, (g - 1) * ByteBits + 1, g * ByteBits))]

\* The least Hamming distance from a byte to a printable code.
MinDistance(byte) ==
    CHOOSE d \in 0..ByteBits :
        /\ \E code \in 32..126 : HammingDistance(code, byte) = d
        /\ \A code \in 32..126 : HammingDistance(code, byte) >= d

\* out is what the groups from position pos on may become: a printable group
\* kept, another replaced by a printable code at least distance if that
\* distance is at most 3 or the group is the first, and dropped otherwise.
RECURSIVE RecoversTo(_, _, _)
RecoversTo(out, groups, pos) ==
    IF pos > Len(groups) THEN out = <<>>
    ELSE IF IsPrintable(groups[pos])
         THEN /\ out # <<>> /\ out[1] = groups[pos]
              /\ RecoversTo(Tail(out), groups, pos + 1)
    ELSE IF MinDistance(groups[pos]) <= 3 \/ pos = 1
         THEN /\ out # <<>> /\ IsPrintable(out[1])
              /\ HammingDistance(out[1], groups[pos]) = MinDistance(groups[pos])
              /\ RecoversTo(Tail(out), groups, pos + 1)
    ELSE RecoversTo(out, groups, pos + 1)

\* C23: attemptMessageRecovery keeps a group that decodes to printable ASCII,
\* replaces any other group by a printable code at minimum Hamming distance
\* when that distance is at most 3 or the group is the first of the message,
\* and drops it otherwise.
C23_CharacterRecovery ==
    lsbPc = "recovered" => RecoversTo(codecText, Groups(codecBits), 1)

\* A non-printable group after the first was replaced by its nearest code.
C23_Witness ==
    /\ lsbPc = "recovered"
    /\ Len(codecBits) = 2 * ByteBits
    /\ Groups(codecBits)[2] = 200
    /\ codecText[2] \in 32..126

\* C27: attemptMessageRecovery returns exactly one character per complete
\* 8-bit group, every one of them printable ASCII, and every byte value is
\* within Hamming distance 3 of a printable code.
C27_RecoveryPreservesLength ==
    /\ lsbPc = "recovered" =>
          /\ Len(codecText) = Len(codecBits) \div ByteBits
          /\ \A j \in 1..Len(codecText) : IsPrintable(codecText[j])
    /\ \A byte \in 0..255 : MinDistance(byte) <= 3

\* Two groups, neither printable, and an incomplete third came back as two
\* characters.
C27_Witness ==
    /\ lsbPc = "recovered"
    /\ Len(codecBits) = 2 * ByteBits + 3
    /\ ~IsPrintable(Groups(codecBits)[1]) /\ ~IsPrintable(Groups(codecBits)[2])
    /\ Len(codecText) = 2

-----------------------------------------------------------------------------
(* Claims about length recovery (SpecRecovery) *)

\* How many of the first len body characters lie wholly inside the buffer
\* and decode to printable ASCII.
PrintableAmong(data, len) ==
    Cardinality({c \in 0..(len - 1) :
        /\ HeaderBits + (c + 1) * ByteBits <= Len(data)
        /\ IsPrintable(BinaryValue([b \in 1..ByteBits |->
                                       data[HeaderBits + c * ByteBits + b] % 2]))})

PrintableFraction(data, len) == Rat(PrintableAmong(data, len), len)

\* The length tolerant extraction worked with.
LengthUsed == extractResult.bitsRecovered \div ByteBits

C30_LengthCollapse ==
    (lsbPc = "extractedDamaged" /\ extractResult.ok /\ ~extractResult.headerValid) =>
        LET data == RawWithAlpha(cover)
            first == BinaryValue([b \in 1..ByteBits |-> LSBit(data, HeaderBits + b - 1)])
        IN IsPrintable(first) => LengthUsed = 1

\* Three printable characters under an invalid header: one came back.
C30_Witness ==
    /\ lsbPc = "extractedDamaged" /\ ~extractResult.headerValid
    /\ cover \in {ForeignImage(hdr, <<65, 65, 65>>) : hdr \in InvalidHeaders}
    /\ extractResult.message = <<65>>

-----------------------------------------------------------------------------
(* Claims about extraction inside the runner (Spec) *)

\* C26: tolerant extraction that returns has at least one character in its
\* message, so a step recorded without an extraction error is perfect or
\* partial, and a step that is neither carries a thrown error.
C26_NeverEmpty ==
    \A n \in 1..Len(applied) : \A step \in StepsOfCall(n) :
        LET ext == extractMessage(applied[n].output, TRUE)
        IN /\ ext.ok => Len(ext.message) >= 1
           /\ ~step.hasError =>
                 /\ step.extractionSuccess \/ step.partialRecovery
                 /\ step.extractedMessage # NoMessageRecovered
           /\ (~step.extractionSuccess /\ ~step.partialRecovery) => step.hasError

\* A step was recorded from an image whose length prefix failed validation,
\* and it is partial.
C26_Witness ==
    \E n \in 1..Len(applied) : \E step \in StepsOfCall(n) :
        LET ext == extractMessage(applied[n].output, TRUE)
        IN ext.ok /\ ~ext.headerValid /\ ~step.hasError /\ step.partialRecovery

-----------------------------------------------------------------------------
(* Claims about the bounds of the carrier (SpecRecovery, SpecLSB) *)

\* C28 as stated: extractMessage reads only raw bytes that exist: the 128
\* header positions and the 8 * length body positions all lie below the raw
\* byte count, and a length that needs bytes beyond the buffer makes the
\* extraction fail.
C28_ReadsInsideCarrier ==
    (lsbPc = "extractedDamaged" /\ extractResult.ok) =>
        HeaderBits + extractResult.bitsRecovered <= Len(RawWithAlpha(cover))

\* C29 as stated: for every cover, with or without an alpha channel,
\* calculateCapacity reports the raw byte count embedMessage checks against
\* as maxBits, and embedMessage accepts a message exactly when its length is
\* at most maxChars.
C29_CapacityAgreement ==
    (lsbPc = "measured" /\ capacityResult.ok) =>
        /\ capacityResult.maxBits = Len(RawWithAlpha(cover))
        /\ embedMessage(cover, message).ok <=> Len(message) <= capacityResult.maxChars

-----------------------------------------------------------------------------
(* Claims about the backend (SpecBackend) *)

\* The requests whose runner child is alive.
RunningChildren == {r \in Requests : children[r].state = "running"}

\* C25 as stated: under every interleaving of concurrent run requests on one
\* experiment at most one runner child is alive at a time, and the stored
\* status is 'running' as long as a child is alive.
C25_SingleRunner ==
    /\ Cardinality(RunningChildren) <= 1
    /\ RunningChildren # {} => dbFile = "running"

=============================================================================
